---- MODULE Spec2Model ----
(***************************************************************************)
(* Terrain streaming engine of ProceduralTerrain_Part10:                   *)
(*   - TileCache / LoadingTracker / MapboxTerrainProvider.loadTile         *)
(*     (src/src/flat-terrain.js, module mapbox_terrain),                   *)
(*   - WorkerThread / WorkerPool (src/src/flat-terrain.js),                *)
(*   - FlatTerrainManager, fixed-grid variant (src/src/flat-terrain.js)    *)
(*     and quadtree variant (src/server.js).                               *)
(* JavaScript runs one task at a time: every action below is one task      *)
(* (a call from the frame loop, a GUI event, a network or image event, a   *)
(* worker message) together with the promise continuations it triggers,    *)
(* which run as microtasks before the next task starts.                    *)
(***************************************************************************)
EXTENDS Integers, Sequences, FiniteSets, TLC

\* ------------------------------------------------------------------ bounds
\* capacity of the TileCache under analysis (constructor parameter maxSize)
MaxSize == 2
\* longest _accessOrder explored when TileCache.set is called directly
MaxOrderLen == 4
\* number of tile columns the world of the model spans
NumTileCols == 3
\* independent callers of loadTile explored
NumCallers == 2
\* jobs enqueued on the pool per run
MaxJobs == 4
\* chunk creations started by the manager per run
MaxCreations == 2
\* underlying tile fetches (_fetchAndDecodeTile calls) explored per run
MaxFetches == 2
\* tiles the synchronous lookups and their loadTile caller range over
NumLookupTiles == 2
\* workers of the pool under analysis (_NUM_WORKERS)
NumWorkers == 2
\* _maxConcurrentLoads of the manager under analysis
MaxConcurrentLoads == 1

\* ------------------------------------------------------------- tile keys
\* _mapboxZoom, the zoom every tile of the model is requested at
Zoom == 12

\* TileCache._makeKey / LoadingTracker._makeKey: `${z}/${x}/${y}`; the
\* text is one-to-one on integer triples, so the key is the triple.
MakeTileKey(z, x, y) == <<z, x, y>>

TileKeys == {MakeTileKey(Zoom, x, 0) : x \in 0..(NumTileCols - 1)}

\* a decoded tile: its id and whether it is the all-zero fallback grid
TileData == [tile : TileKeys, zero : BOOLEAN, scale : Nat]

VARIABLES
  \* --- mapbox_terrain: TileCache, LoadingTracker, MapboxTerrainProvider
  cache,        \* TileCache._cache: Map key -> tile data
  accessOrder,  \* TileCache._accessOrder: array of keys
  recency,      \* history: resident keys, least recently touched first
  lastEvict,    \* history: <<key deleted, least recently touched resident>>
                \* of the latest TileCache.set that deleted an entry
  pending,      \* LoadingTracker._pending: Map key -> promise (the fetch)
  fetches,      \* every _fetchAndDecodeTile call so far:
                \* [tile, phase, body, result]; its promise is settled
                \* exactly when phase = "settled"
  waitOn,       \* per caller: the fetch promises it is awaiting
  got,          \* per caller: the tile data loadTile has returned to it
  lookup,       \* what the latest synchronous lookup returned to its caller
  calc,         \* the latest call of a function studied on its own:
                \* [op, in, out], what it was given and what it returned
  config,       \* MapboxTerrainProvider._zoom, _heightScale and the _maxSize
                \* of its TileCache, with the latest constructor or setter
                \* call [op, arg] and whether that call threw
  \* --- flat_terrain: WorkerThread, WorkerPool
  free,         \* WorkerPool._free: array of workers (a stack)
  busy,         \* WorkerPool._busy: the ids of the workers in it
  queue,        \* WorkerPool._queue: array of jobs
  inbox,        \* per worker: messages posted to it and not yet answered
  resolveOf,    \* per worker: WorkerThread._resolve (0 is null)
  jobs,         \* per job: [kind, done, result] of its completion callback
  \* --- flat_terrain: FlatTerrainManager, FlatTerrainChunk
  variant,      \* which FlatTerrainManager source is running
  camera,       \* _params.camera.position
  chunks,       \* _chunks: key -> {pending, chunk}
  loadingChunks,\* _loadingChunks
  oldChunks,    \* _oldChunks
  desired,      \* the key set computed by the latest Update
  lod,          \* the LOD selection studied on its own: _viewDistance,
                \* _chunkSize, _maxChunkSize and the descriptors returned
  creation,     \* per _createChunkAtGrid / _createChunk call: [key, stage]
  chunkObj,     \* per FlatTerrainChunk: [made, inGroup, visible, meshVisible,
                \* destroys, built, pos]
  nextId,       \* next unused identity
  inScene       \* the manager's group is in the scene (until destroy())

vars == <<cache, accessOrder, recency, lastEvict, pending, fetches, waitOn, got,
          lookup, calc, config,
          free, busy, queue, inbox, resolveOf, jobs,
          variant, camera, chunks, loadingChunks, oldChunks, desired, lod,
          creation, chunkObj, nextId, inScene>>

\* identities of loadTile callers, pool jobs and chunk creations (a chunk
\* creation is the caller of its loadTile calls and the job it enqueues)
MaxIds ==
  IF NumCallers >= MaxJobs /\ NumCallers >= MaxCreations THEN NumCallers
  ELSE IF MaxJobs >= MaxCreations THEN MaxJobs ELSE MaxCreations
Ids == 1..MaxIds
Workers == 1..NumWorkers

\* --------------------------------------------------------- sequence helpers
\* Array.prototype.indexOf: first index holding v, 0 when absent
IndexOf(s, v) ==
  IF \E i \in 1..Len(s) : s[i] = v
  THEN CHOOSE i \in 1..Len(s) : s[i] = v /\ \A j \in 1..(i - 1) : s[j] # v
  ELSE 0

\* Array.prototype.splice(idx, 1)
RemoveAt(s, i) == [j \in 1..(Len(s) - 1) |-> IF j < i THEN s[j] ELSE s[j + 1]]

\* the sequence s without any occurrence of v
Without(s, v) == SelectSeq(s, LAMBDA e : e # v)

\* a function with key k removed from its domain (Map.delete, delete obj[k])
Drop(f, k) == [x \in DOMAIN f \ {k} |-> f[x]]

\* a function with key k set to v (Map.set, obj[k] = v)
Put(f, k, v) == [x \in DOMAIN f \cup {k} |-> IF x = k THEN v ELSE f[x]]

\* The state as one record, so that the handlers below can be composed the
\* way the code calls them; Commit writes a record back to the variables.
State ==
  [cache |-> cache, accessOrder |-> accessOrder, recency |-> recency,
   lastEvict |-> lastEvict, pending |-> pending, fetches |-> fetches,
   waitOn |-> waitOn, got |-> got, lookup |-> lookup, calc |-> calc,
   config |-> config,
   free |-> free, busy |-> busy,
   queue |-> queue, inbox |-> inbox, resolveOf |-> resolveOf, jobs |-> jobs,
   variant |-> variant, camera |-> camera, chunks |-> chunks,
   loadingChunks |-> loadingChunks, oldChunks |-> oldChunks,
   desired |-> desired, lod |-> lod,
   creation |-> creation, chunkObj |-> chunkObj, nextId |-> nextId,
   inScene |-> inScene]

\* ------------------------------------------------------------- TileCache
\* TileCache.has
TileCacheHas(s, key) == key \in DOMAIN s.cache

\* a get that returns the entry without touching the access order
TileCacheGetNoTouch(s, key) == s

\* TileCache.get: on a hit, move the key's first occurrence to the end
TileCacheGet(s, key) ==
  IF key \in DOMAIN s.cache
  THEN LET idx == IndexOf(s.accessOrder, key)
           cut == IF idx > 0 THEN RemoveAt(s.accessOrder, idx) ELSE s.accessOrder
       IN [s EXCEPT !.accessOrder = Append(cut, key),
                    !.recency = Append(Without(s.recency, key), key)]
  ELSE s

\* The eviction loop of TileCache.set:
\*   while (cache.size >= maxSize && accessOrder.length > 0)
\*     { oldestKey = accessOrder.shift(); cache.delete(oldestKey); }
RECURSIVE EvictLoop(_)
EvictLoop(s) ==
  IF Cardinality(DOMAIN s.cache) >= MaxSize /\ Len(s.accessOrder) > 0
  THEN LET oldestKey == Head(s.accessOrder)
           hit == oldestKey \in DOMAIN s.cache
       IN EvictLoop([s EXCEPT
            !.accessOrder = Tail(s.accessOrder),
            !.cache = Drop(s.cache, oldestKey),
            !.recency = Without(s.recency, oldestKey),
            !.lastEvict = IF hit THEN <<oldestKey, Head(s.recency)>>
                          ELSE s.lastEvict])
  ELSE s

\* a set that forgets the eviction loop
TileCacheSetNoEvict(s, key, data) ==
  [s EXCEPT !.cache = Put(s.cache, key, data),
            !.accessOrder = Append(s.accessOrder, key),
            !.recency = Append(Without(s.recency, key), key)]

\* TileCache.set: evict while at capacity, then store and append the key
TileCacheSet(s, key, data) ==
  LET e == EvictLoop(s)
  IN [e EXCEPT !.cache = Put(e.cache, key, data),
               !.accessOrder = Append(e.accessOrder, key),
               !.recency = Append(Without(e.recency, key), key)]

\* --------------------------------------------------------------- WorkerPool
Last(s) == s[Len(s)]
Front(s) == SubSeq(s, 1, Len(s) - 1)

\* a busy getter that looks at the queue only
PoolBusyQueueOnly(s) == Len(s.queue) > 0

\* WorkerPool.busy (getter)
PoolBusy(s) == Len(s.queue) > 0 \/ s.busy # {}

\* WorkerThread.postMessage(msg, resolve): remember the callback, post
PostMessage(s, worker, job) ==
  [s EXCEPT !.resolveOf[worker] = job,
            !.inbox[worker] = Append(@, job)]

\* a _pump step that posts to the last free worker without taking it
PumpStepKeepsWorkerFree(s) ==
  LET worker == Last(s.free)
      job == Head(s.queue)
  IN PostMessage([s EXCEPT !.busy = @ \cup {worker}, !.queue = Tail(@)],
                 worker, job)

\* a _pump step that reads the head of the queue without shifting it
PumpStepKeepsJobQueued(s) ==
  LET worker == Last(s.free)
      job == Head(s.queue)
  IN PostMessage([s EXCEPT !.free = Front(@), !.busy = @ \cup {worker}],
                 worker, job)

\* a _pump step that takes the newest job of the queue (pop for shift)
PumpStepTakesNewest(s) ==
  LET worker == Last(s.free)
      job == Last(s.queue)
  IN PostMessage([s EXCEPT !.free = Front(@),
                           !.busy = @ \cup {worker},
                           !.queue = Front(@)],
                 worker, job)

\* One iteration of the loop of WorkerPool._pump: pop a free worker, file
\* it under _busy, shift the head of the queue and post it to the worker.
PumpStep(s) ==
  LET worker == Last(s.free)
      job == Head(s.queue)
  IN PostMessage([s EXCEPT !.free = Front(@),
                           !.busy = @ \cup {worker},
                           !.queue = Tail(@)],
                 worker, job)

\* WorkerPool._pump: while (free.length > 0 && queue.length > 0) ...
RECURSIVE Pump(_)
Pump(s) ==
  IF Len(s.free) > 0 /\ Len(s.queue) > 0
  THEN Pump(PumpStep(s))
  ELSE s

\* WorkerPool.enqueue(workItem, resolve)
PoolEnqueue(s, job) == Pump([s EXCEPT !.queue = Append(@, job)])

\* ------------------------------------------- MapboxTerrainProvider.loadTile
\* new URLSearchParams(location.search).get('token'), and a token set later
UrlToken == "token-of-url"
OtherToken == "token-set-later"

\* a new record of _fetchAndDecodeTile(z, x, y): fetch(url) has been issued
NewFetch(s, key) ==
  [tile |-> key, phase |-> "fetching", body |-> "none", result |-> "none",
   token |-> s.config.accessToken]

\* loadTile without the LoadingTracker.isLoading test
LoadTileNoTracker(s, c, key) ==
  LET g == TileCacheGet(s, key)
  IN IF key \in DOMAIN s.cache
     THEN [g EXCEPT !.got[c] = @ \cup {s.cache[key]}]
     ELSE LET f == Len(g.fetches) + 1
          IN [g EXCEPT !.fetches = Append(@, NewFetch(s, key)),
                       !.pending = Put(@, key, f),
                       !.waitOn[c] = @ \cup {f}]

\* a loadTile that fetches again a tile resident as its fallback grid
LoadTileRetriesFailed(s, c, key) ==
  LET g == TileCacheGet(s, key)
  IN IF key \in DOMAIN s.cache /\ ~s.cache[key].zero
     THEN [g EXCEPT !.got[c] = @ \cup {s.cache[key]}]
     ELSE IF key \in DOMAIN g.pending
     THEN [g EXCEPT !.waitOn[c] = @ \cup {g.pending[key]}]
     ELSE LET f == Len(g.fetches) + 1
          IN [g EXCEPT !.fetches = Append(@, NewFetch(s, key)),
                       !.pending = Put(@, key, f),
                       !.waitOn[c] = @ \cup {f}]

\* loadTile(z, x, y) up to its first await, called by caller c:
\*   cached -> return it (TileCache.get has bumped its recency);
\*   loading -> return the tracker's promise;
\*   else start _fetchAndDecodeTile, register it, await it.
LoadTile(s, c, key) ==
  LET g == TileCacheGet(s, key)
  IN IF key \in DOMAIN s.cache
     THEN [g EXCEPT !.got[c] = @ \cup {s.cache[key]}]
     ELSE IF key \in DOMAIN g.pending
     THEN [g EXCEPT !.waitOn[c] = @ \cup {g.pending[key]}]
     ELSE LET f == Len(g.fetches) + 1
          IN [g EXCEPT !.fetches = Append(@, NewFetch(s, key)),
                       !.pending = Put(@, key, f),
                       !.waitOn[c] = @ \cup {f}]

\* the callers awaiting fetch f
Waiters(s, f) == {c \in Ids : f \in s.waitOn[c]}

\* The promise of fetch f fulfils with data.  The caller that started the
\* fetch resumes first (loadTile after its await: TileCache.set, then the
\* finally block clears the tracker); then every caller holding the promise
\* receives data.
FulfilFetch(s, f, data) ==
  LET key == s.fetches[f].tile
      w == Waiters(s, f)
      c1 == TileCacheSet(s, key, data)
  IN [c1 EXCEPT !.pending = Drop(@, key),
                !.fetches[f].phase = "settled",
                !.fetches[f].result = IF data.zero THEN "zeros" ELSE "heights",
                !.waitOn = [c \in Ids |-> @[c] \ {f}],
                !.got = [c \in Ids |-> IF c \in w THEN @[c] \cup {data} ELSE @[c]]]

\* fetch(url) settles for fetch f.  A response (of any HTTP status) is read
\* as a blob and handed to an Image; a rejection of fetch() or blob() throws
\* inside the async executor of `new Promise(async (resolve, reject) => ...)`,
\* where nothing catches it and neither resolve nor reject is ever called.
FetchSettles(s, f, outcome) ==
  CASE outcome = "ok" ->
         [s EXCEPT !.fetches[f].phase = "image", !.fetches[f].body = "png"]
    [] outcome = "http_error" ->
         [s EXCEPT !.fetches[f].phase = "image", !.fetches[f].body = "error"]
    [] outcome = "network_error" ->
         [s EXCEPT !.fetches[f].phase = "rejected"]

\* img.onload (loaded) resolves with the decoded heights, img.onerror with
\* the zero-filled grid {heights: 0..., error: true}
ImageData(s, f, loaded) ==
  [tile |-> s.fetches[f].tile, zero |-> ~loaded,
   scale |-> IF loaded THEN s.config.heightScale ELSE 0]

\* ----------------------------------------------------- synchronous lookups
\* defaultHeight of the MapboxHeightGenerator (params.defaultHeight || 0)
DefaultHeight == 0
\* the elevation interpolated from the heights of a decoded tile
SampleHeight == 100

\* no lookup made yet.  found is the boolean of isTileCached, tile the value
\* of getCachedTile ({} is null), height and weight the pair Get returns.
NoLookup == [op |-> "none", key |-> << >>, found |-> FALSE, tile |-> {},
             height |-> 0, weight |-> 0]

\* MapboxTerrainProvider.isTileCached(z, x, y): TileCache.has
IsTileCached(s, key) ==
  [s EXCEPT !.lookup = [NoLookup EXCEPT !.op = "isTileCached", !.key = key,
                                        !.found = TileCacheHas(s, key)]]

\* a getCachedTile that starts loading the tile it misses
GetCachedTileFetches(s, key) ==
  LET g == [TileCacheGet(s, key) EXCEPT
              !.lookup = [NoLookup EXCEPT !.op = "getCachedTile", !.key = key,
                 !.tile = IF key \in DOMAIN s.cache THEN {s.cache[key]} ELSE {}]]
  IN IF key \in DOMAIN s.cache \/ key \in DOMAIN s.pending THEN g
     ELSE [g EXCEPT !.fetches = Append(@, NewFetch(s, key)),
                    !.pending = Put(@, key, Len(s.fetches) + 1)]

\* MapboxTerrainProvider.getCachedTile(z, x, y): TileCache.get, which returns
\* the entry (bumping its recency) or null
GetCachedTile(s, key) ==
  [TileCacheGet(s, key) EXCEPT
     !.lookup = [NoLookup EXCEPT !.op = "getCachedTile", !.key = key,
                   !.tile = IF key \in DOMAIN s.cache THEN {s.cache[key]} ELSE {}]]

\* MapboxHeightGenerator.Get(x, y, z) for a point that falls in tile key:
\* getCachedTile; [defaultHeight, 0] if (!tile), else the interpolated
\* height with weight 1
HeightGeneratorGet(s, key) ==
  LET g == GetCachedTile(s, key)
      tile == g.lookup.tile
  IN [g EXCEPT !.lookup =
        IF tile = {}
        THEN [NoLookup EXCEPT !.op = "Get", !.key = key,
                              !.height = DefaultHeight, !.weight = 0]
        ELSE [NoLookup EXCEPT !.op = "Get", !.key = key,
                !.height = IF \E d \in tile : d.zero THEN 0 ELSE SampleHeight,
                !.weight = 1]]

\* ------------------------------------------------------ world of the model
\* _chunkSize and _viewDistance, in model metres (the source's 1000 and
\* 8000 divided down so that one frame desires one or two chunks)
ChunkSize == 4
ViewDistance == 1
\* _maxChunkSize of the quadtree variant: the root square is 2 x this wide
MaxChunkSize == 2
\* Width of one tile in model metres and the position of the world origin
\* inside the tile grid.  worldToLonLat followed by lon2tileX / lat2tileY is,
\* over the few kilometres a chunk spans, a floor of a linear map of the
\* world coordinate, growing with x and shrinking with z (north is up).
TileWidth == 8
ColOffset == 8
RowOffset == 7

\* the viewpoints the camera is moved between: x, z (the altitude y plays
\* no part in the selection of chunks)
CameraPositions == {[x |-> i * (ChunkSize \div 2), z |-> ChunkSize \div 2] : i \in 0..1}

\* chunk keys `${x}/${z}/${size}`, and key.split('/').map(Number)
MakeKey(x, z, size) == <<x, z, size>>
KeyX(key) == key[1]
KeyZ(key) == key[2]
KeySize(key) == key[3]

\* lon2tileX(worldToLonLat(x, .).lon, zoom)
TileCol(x) == (x + ColOffset) \div TileWidth
\* lat2tileY(worldToLonLat(., z).lat, zoom)
TileRow(z) == (RowOffset - z) \div TileWidth

\* the integers lo..hi in ascending order
RECURSIVE Range(_, _)
Range(lo, hi) == IF lo > hi THEN << >> ELSE <<lo>> \o Range(lo + 1, hi)

\* every element of a sequence of sequences, in order
RECURSIVE Flatten(_)
Flatten(ss) == IF ss = << >> THEN << >> ELSE Head(ss) \o Flatten(Tail(ss))

\* The tiles prefetchTiles(sw.lon, sw.lat, ne.lon, ne.lat) loads for the
\* chunk of a key, in the order of its loops: x from minX to maxX, y from
\* minY = lat2tileY(north) to maxY = lat2tileY(south).  The sample points of
\* _getHeightDataForChunk fall in the same tiles.
TilesForChunk(key) ==
  LET xs == Range(TileCol(KeyX(key)), TileCol(KeyX(key) + KeySize(key)))
      ys == Range(TileRow(KeyZ(key) + KeySize(key)), TileRow(KeyZ(key)))
  IN Flatten([i \in 1..Len(xs) |->
        [j \in 1..Len(ys) |-> MakeTileKey(Zoom, xs[i], ys[j])]])

\* -------------------------------------------------------- FlatTerrainChunk
\* no chunk object yet.  visible is the flag _visible, meshVisible the
\* flag mesh.visible the renderer reads; pos is mesh.position in half metres.
NoChunk == [made |-> FALSE, inGroup |-> FALSE, visible |-> FALSE,
            meshVisible |-> FALSE, destroys |-> 0, built |-> 0, pos |-> << >>]

\* new FlatTerrainChunk(params): _init makes the mesh (a new THREE.Mesh has
\* visible = true) and adds it to the group; _visible starts false.
NewChunk == [NoChunk EXCEPT !.made = TRUE, !.inGroup = TRUE, !.meshVisible = TRUE]

\* a show that leaves the chunk as it is
ChunkShowNothing(s, c) == s

\* FlatTerrainChunk.show: if (!_visible) { mesh.visible = true; _visible = true }
ChunkShow(s, c) ==
  IF ~s.chunkObj[c].visible
  THEN [s EXCEPT !.chunkObj[c].visible = TRUE, !.chunkObj[c].meshVisible = TRUE]
  ELSE s

\* FlatTerrainChunk.hide: if (_visible) { mesh.visible = false; _visible = false }
ChunkHide(s, c) ==
  IF s.chunkObj[c].visible
  THEN [s EXCEPT !.chunkObj[c].visible = FALSE, !.chunkObj[c].meshVisible = FALSE]
  ELSE s

\* FlatTerrainChunk.destroy: group.remove(mesh); geometry.dispose()
ChunkDestroy(s, c) ==
  [s EXCEPT !.chunkObj[c].inGroup = FALSE, !.chunkObj[c].destroys = @ + 1]

\* FlatTerrainChunk.update(cameraPosition): fixed grid: -camera;
\* quadtree: -camera + worldPosition (the centre of the node)
ChunkUpdate(s, c) ==
  LET key == s.creation[c].key
  IN [s EXCEPT !.chunkObj[c].pos =
        IF s.variant = "grid"
        THEN <<0 - 2 * s.camera.x, 0 - 2 * s.camera.z>>
        ELSE <<2 * KeyX(key) + KeySize(key) - 2 * s.camera.x,
               2 * KeyZ(key) + KeySize(key) - 2 * s.camera.z>>]

\* ------------------------------------- _createChunkAtGrid / _createChunk
\* loadTile for each tile of a sequence, in order, for caller c
RECURSIVE LoadTiles(_, _, _)
LoadTiles(s, c, tiles) ==
  IF tiles = << >> THEN s
  ELSE LoadTiles(LoadTile(s, c, Head(tiles)), c, Tail(tiles))

\* The heights are in: new FlatTerrainChunk(chunkParams); chunk.hide();
\* then _workerPool.enqueue({subject: 'build_chunk', ...}, callback).
EnterPool(s, c) ==
  LET s1 == [s EXCEPT !.creation[c].stage = "pool",
                      !.chunkObj[c] = NewChunk,
                      !.jobs[c] = [kind |-> "chunk", done |-> 0, result |-> 0]]
  IN PoolEnqueue(ChunkHide(s1, c), c)

\* prefetchTiles has resolved: _getHeightDataForChunk calls getHeightAt, and
\* so loadTile, for the tile of every sample point and awaits them all
EnterHeights(s, c) ==
  LET s1 == LoadTiles([s EXCEPT !.creation[c].stage = "heights"], c,
                      TilesForChunk(s.creation[c].key))
  IN IF s1.waitOn[c] = {} THEN EnterPool(s1, c) ELSE s1

\* the continuation of creation c once nothing it awaits is outstanding
Advance(s, c) ==
  IF s.waitOn[c] # {} THEN s
  ELSE IF s.creation[c].stage = "prefetch" THEN EnterHeights(s, c)
  ELSE IF s.creation[c].stage = "heights" THEN EnterPool(s, c)
  ELSE s

\* the continuations of the callers in w, in the order they were started
RECURSIVE AdvanceAll(_, _)
AdvanceAll(s, w) ==
  IF w = {} THEN s
  ELSE LET c == CHOOSE x \in w : \A y \in w : x <= y
       IN AdvanceAll(Advance(s, c), w \ {c})

\* _createChunkAtGrid(x, z, size) / _createChunk(node) up to its first
\* await: prefetchTiles calls loadTile for every tile under the chunk
StartCreation(s, key) ==
  LET c == s.nextId
  IN LoadTiles([s EXCEPT !.nextId = @ + 1,
                         !.creation[c] = [key |-> key, stage |-> "prefetch"],
                         !.got[c] = {}],
               c, TilesForChunk(key))

\* a completion handler that keeps its load slot
OnCreatedGridKeepsSlot(s, c) ==
  LET key == s.creation[c].key
      s1 == [s EXCEPT !.creation[c].stage = "settled"]
  IN IF key \in DOMAIN s1.chunks
     THEN ChunkShow([s1 EXCEPT !.chunks =
                       Put(@, key, [pending |-> FALSE, chunk |-> c])], c)
     ELSE ChunkDestroy(s1, c)

\* The handler of _createChunkAtGrid(...).then in the fixed-grid Update:
\* release the load slot; install and show the chunk if the key has a
\* record, destroy it otherwise.
OnCreatedGrid(s, c) ==
  LET key == s.creation[c].key
      s1 == [s EXCEPT !.loadingChunks = @ - 1, !.creation[c].stage = "settled"]
  IN IF key \in DOMAIN s1.chunks
     THEN ChunkShow([s1 EXCEPT !.chunks =
                       Put(@, key, [pending |-> FALSE, chunk |-> c])], c)
     ELSE ChunkDestroy(s1, c)

\* the handler of _createChunk(node).then in the quadtree Update
OnCreatedQuad(s, c) ==
  LET key == s.creation[c].key
      s1 == [s EXCEPT !.creation[c].stage = "settled"]
  IN IF key \in DOMAIN s1.chunks
     THEN ChunkShow([s1 EXCEPT !.chunks =
                       Put(@, key, [pending |-> FALSE, chunk |-> c])], c)
     ELSE ChunkDestroy(s1, c)

\* ------------------------------------------------ worker replies (pool side)
\* The completion callback of a job, called with the reply to message msg.
\*   "chunk": the callback of _createChunkAtGrid: rebuildFromData(result.data)
\*            and resolve({chunk, key}); the .then handler runs afterwards;
\*   "plain": a callback that records its result;
\*   "spawn": a callback that records its result and enqueues one more job
\*            from inside the callback.
WorkResolve(s, job, msg) ==
  LET s1 == [s EXCEPT !.jobs[job].done = @ + 1, !.jobs[job].result = msg]
  IN CASE s.jobs[job].kind = "chunk" -> [s1 EXCEPT !.chunkObj[job].built = msg]
       [] s.jobs[job].kind = "spawn" /\ s.nextId <= MaxJobs ->
            PoolEnqueue([s1 EXCEPT
                           !.nextId = @ + 1,
                           !.jobs[s.nextId] =
                              [kind |-> "plain", done |-> 0, result |-> 0]],
                        s.nextId)
       [] OTHER -> s1

\* the promise continuations that follow the callback of a chunk job
AfterResolve(s, job) ==
  IF s.jobs[job].kind # "chunk" THEN s
  ELSE IF s.variant = "grid" THEN OnCreatedGrid(s, job)
  ELSE OnCreatedQuad(s, job)

\* a reply handler whose closure does not call _pump again
WorkerOnMessageNoPump(s, w) ==
  LET msg == Head(s.inbox[w])
      resolve == s.resolveOf[w]
      s1 == [s EXCEPT !.inbox[w] = Tail(@), !.resolveOf[w] = 0]
  IN IF resolve = 0 THEN s1
     ELSE LET s2 == [s1 EXCEPT !.busy = @ \ {w}, !.free = Append(@, w)]
          IN AfterResolve(WorkResolve(s2, resolve, msg), resolve)

\* The worker answers the oldest message in its inbox (part_000: one
\* build_chunk_result per build_chunk) and WorkerThread._onMessage runs:
\*   resolve = _resolve; _resolve = null; if (resolve) resolve(e.data)
\* where resolve is the closure of _pump: delete _busy[id]; _free.push(worker);
\* workResolve(result); _pump().
WorkerOnMessage(s, w) ==
  LET msg == Head(s.inbox[w])
      resolve == s.resolveOf[w]
      s1 == [s EXCEPT !.inbox[w] = Tail(@), !.resolveOf[w] = 0]
  IN IF resolve = 0 THEN s1
     ELSE LET s2 == [s1 EXCEPT !.busy = @ \ {w}, !.free = Append(@, w)]
          IN AfterResolve(Pump(WorkResolve(s2, resolve, msg)), resolve)

\* the subject of the message a job is posted with: the jobs of the
\* managers are posted as build_chunk
Subject(s, job) ==
  IF s.jobs[job].kind = "other" THEN "other_subject" ELSE "build_chunk"

\* a worker that answers every message
SelfOnMessageAnswersAll(s, w) == WorkerOnMessage(s, w)

\* self.onmessage of the worker: a build_chunk message is built and
\* answered with one build_chunk_result (received by WorkerThread._onMessage);
\* a message of any other subject is taken and nothing is posted
SelfOnMessage(s, w) ==
  IF Subject(s, Head(s.inbox[w])) = "build_chunk"
  THEN WorkerOnMessage(s, w)
  ELSE [s EXCEPT !.inbox[w] = Tail(@)]

\* ------------------------------------------------------- desired key sets
\* twice the squared distance terms: centres lie on half metres, so the
\* comparisons of the code are made on doubled coordinates
Sq(n) == n * n
Dist2x2(key, cam) ==
  Sq(2 * KeyX(key) + KeySize(key) - 2 * cam.x) +
  Sq(2 * KeyZ(key) + KeySize(key) - 2 * cam.z)

\* _getVisibleChunkKeys(cameraPos), fixed grid: the keys in the order the
\* Set receives them (x outer loop, z inner loop), kept when
\* dist(centre, camera) < viewDist + chunkSize
VisibleChunkKeysFor(cam, viewDist, chunkSize) ==
  LET minX == ((cam.x - viewDist) \div chunkSize) * chunkSize
      maxX == ((cam.x + viewDist) \div chunkSize) * chunkSize
      minZ == ((cam.z - viewDist) \div chunkSize) * chunkSize
      maxZ == ((cam.z + viewDist) \div chunkSize) * chunkSize
      xs == Range(minX \div chunkSize, maxX \div chunkSize)
      zs == Range(minZ \div chunkSize, maxZ \div chunkSize)
      all == Flatten([i \in 1..Len(xs) |->
               [j \in 1..Len(zs) |->
                  MakeKey(xs[i] * chunkSize, zs[j] * chunkSize, chunkSize)]])
  IN SelectSeq(all, LAMBDA k :
       Dist2x2(k, cam) < Sq(2 * (viewDist + chunkSize)))

\* _getVisibleChunkKeys of the manager of the model
VisibleChunkKeys(cam) == VisibleChunkKeysFor(cam, ViewDistance, ChunkSize)

\* QuadTreeNode.subdivide: the four children, in the order of the array
Subdivide(node) ==
  LET h == KeySize(node) \div 2
  IN << MakeKey(KeyX(node), KeyZ(node), h),
        MakeKey(KeyX(node) + h, KeyZ(node), h),
        MakeKey(KeyX(node), KeyZ(node) + h, h),
        MakeKey(KeyX(node) + h, KeyZ(node) + h, h) >>

\* _subdivideNode(node, cameraPos, results): the nodes it pushes, in order
\* a subdivision test that also subdivides on a tie
ShouldSubdivideOnTie(node, cam, chunkSize) ==
  /\ Dist2x2(node, cam) <= Sq(2 * (KeySize(node) * 2))
  /\ KeySize(node) > chunkSize

\* _subdivideNode: shouldSubdivide (distances doubled and squared)
ShouldSubdivide(node, cam, chunkSize) ==
  /\ Dist2x2(node, cam) < Sq(2 * (KeySize(node) * 2))
  /\ KeySize(node) > chunkSize

RECURSIVE SubdivideNodeFor(_, _, _, _)
SubdivideNodeFor(node, cam, viewDist, chunkSize) ==
  IF ShouldSubdivide(node, cam, chunkSize)
  THEN LET ch == Subdivide(node)
       IN Flatten([i \in 1..4 |->
                     SubdivideNodeFor(ch[i], cam, viewDist, chunkSize)])
  ELSE IF Dist2x2(node, cam) < Sq(2 * (viewDist + KeySize(node)))
  THEN <<node>>
  ELSE << >>

\* the nodes on which a _subdivideNode call takes the subdividing branch
RECURSIVE SplitNodesFor(_, _, _)
SplitNodesFor(node, cam, chunkSize) ==
  IF ShouldSubdivide(node, cam, chunkSize)
  THEN LET ch == Subdivide(node)
       IN {node} \cup UNION {SplitNodesFor(ch[i], cam, chunkSize) : i \in 1..4}
  ELSE {}

\* _buildQuadTree(cameraPos): the root square is centred on the camera
BuildQuadTreeFor(cam, viewDist, chunkSize, maxChunkSize) ==
  SubdivideNodeFor(MakeKey(cam.x - maxChunkSize, cam.z - maxChunkSize,
                           maxChunkSize * 2), cam, viewDist, chunkSize)

\* _subdivideNode and _buildQuadTree of the manager of the model
SubdivideNode(node, cam) == SubdivideNodeFor(node, cam, ViewDistance, ChunkSize)

BuildQuadTree(cam) == BuildQuadTreeFor(cam, ViewDistance, ChunkSize, MaxChunkSize)

\* the elements of a sequence, as a set
SeqSet(q) == {q[i] : i \in 1..Len(q)}

\* the parameters of a LOD selection, nothing selected yet
LodOf(viewDist, chunkSize, maxChunkSize) ==
  [viewDistance |-> viewDist, chunkSize |-> chunkSize,
   maxChunkSize |-> maxChunkSize, nodes |-> << >>, done |-> FALSE,
   root |-> << >>, split |-> {}]

\* The descriptors the manager of variant v selects for viewpoint cam:
\* the keys of _getVisibleChunkKeys, or the nodes of _buildQuadTree
SelectLod(v, cam, l) ==
  IF v = "grid"
  THEN VisibleChunkKeysFor(cam, l.viewDistance, l.chunkSize)
  ELSE BuildQuadTreeFor(cam, l.viewDistance, l.chunkSize, l.maxChunkSize)

\* -------------------------------------------------------- _rebuildAllChunks
\* a rebuild that also forgets the loads in flight
RebuildAllChunksResetsLoads(s) ==
  [s EXCEPT !.oldChunks = @ \cup {s.chunks[k] : k \in DOMAIN s.chunks},
            !.chunks = << >>,
            !.loadingChunks = 0]

\* Every record is pushed on _oldChunks and _chunks is emptied.  The array
\* _oldChunks is only ever walked to destroy the chunks of its records, so
\* it is kept as the set of its records.
RebuildAllChunks(s) ==
  [s EXCEPT !.oldChunks = @ \cup {s.chunks[k] : k \in DOMAIN s.chunks},
            !.chunks = << >>]

\* ----------------------------------------------------- Update, fixed grid
\* a record of _chunks that is fully loaded: chunkData.chunk && !pending
IsReady(rec) == rec.chunk # 0 /\ ~rec.pending

\* destroy the chunks of the records under keys, and delete the records
RECURSIVE RemoveChunks(_, _)
RemoveChunks(s, keys) ==
  IF keys = {} THEN s
  ELSE LET key == CHOOSE k \in keys : TRUE
           rec == s.chunks[key]
           s1 == IF rec.chunk # 0 THEN ChunkDestroy(s, rec.chunk) ELSE s
       IN RemoveChunks([s1 EXCEPT !.chunks = Drop(@, key)], keys \ {key})

\* a create list left in the order the desired keys were enumerated
SortNothing(keys, cam) == keys

\* Array.prototype.sort with the comparator distA - distB (a stable sort):
\* the nearest key first, the earliest of equally near keys before the others
RECURSIVE SortByDistance(_, _)
SortByDistance(keys, cam) ==
  IF keys = << >> THEN << >>
  ELSE LET i == CHOOSE a \in 1..Len(keys) :
                  /\ \A b \in 1..Len(keys) :
                        Dist2x2(keys[a], cam) <= Dist2x2(keys[b], cam)
                  /\ \A b \in 1..(a - 1) :
                        Dist2x2(keys[b], cam) # Dist2x2(keys[a], cam)
       IN <<keys[i]>> \o SortByDistance(RemoveAt(keys, i), cam)

\* The loop "Create new chunks (limited concurrent loads)": stop at the
\* first key once _loadingChunks >= _maxConcurrentLoads; otherwise mark the
\* key pending, take a load slot and start the creation.
RECURSIVE CreateLoopGrid(_, _)
CreateLoopGrid(s, keys) ==
  IF keys = << >> \/ s.loadingChunks >= MaxConcurrentLoads THEN s
  ELSE LET key == Head(keys)
           s1 == [s EXCEPT !.chunks = Put(@, key, [pending |-> TRUE, chunk |-> 0]),
                           !.loadingChunks = @ + 1]
       IN CreateLoopGrid(StartCreation(s1, key), Tail(keys))

\* the chunks of the ready records of _chunks
ReadyChunks(s) ==
  {s.chunks[k].chunk : k \in {x \in DOMAIN s.chunks : IsReady(s.chunks[x])}}

\* The last loop of Update over the chunks in cs: chunk.update(cameraPos),
\* followed in the quadtree variant (show) by chunk.show()
RECURSIVE PlaceChunks(_, _, _)
PlaceChunks(s, cs, show) ==
  IF cs = {} THEN s
  ELSE LET c == CHOOSE x \in cs : TRUE
           s1 == ChunkUpdate(s, c)
       IN PlaceChunks(IF show THEN ChunkShow(s1, c) ELSE s1, cs \ {c}, show)

\* FlatTerrainManager.Update of src/src/flat-terrain.js, and the promise
\* continuations of the creations it starts
UpdateGrid(s) ==
  LET visibleKeys == VisibleChunkKeys(s.camera)
      chunksToRemove == {k \in DOMAIN s.chunks :
                           k \notin SeqSet(visibleKeys) /\ IsReady(s.chunks[k])}
      s1 == RemoveChunks([s EXCEPT !.desired = SeqSet(visibleKeys)],
                         chunksToRemove)
      chunksToCreate == SortByDistance(
                          SelectSeq(visibleKeys, LAMBDA k : k \notin DOMAIN s1.chunks),
                          s.camera)
      s2 == CreateLoopGrid(s1, chunksToCreate)
      s3 == PlaceChunks(s2, ReadyChunks(s2), FALSE)
  IN AdvanceAll(s3, s.nextId..(s3.nextId - 1))

\* how many creations the create loop of the fixed-grid Update starts
StartsGrid(s) ==
  LET visibleKeys == VisibleChunkKeys(s.camera)
      missing == Cardinality(SeqSet(visibleKeys) \ DOMAIN s.chunks)
      slots == MaxConcurrentLoads - s.loadingChunks
  IN IF slots <= 0 THEN 0 ELSE IF missing < slots THEN missing ELSE slots

\* ------------------------------------------------------- Update, quadtree
\* "Recycle old chunks": destroy the chunk of every record of _oldChunks
RECURSIVE DestroyAll(_, _)
DestroyAll(s, cs) ==
  IF cs = {} THEN s
  ELSE LET c == CHOOSE x \in cs : TRUE
       IN DestroyAll(ChunkDestroy(s, c), cs \ {c})

\* a recycling step that does not ask whether the pool is busy
RecycleOldChunksAlways(s) ==
  [DestroyAll(s, {r.chunk : r \in {x \in s.oldChunks : x.chunk # 0}})
     EXCEPT !.oldChunks = {}]

RecycleOldChunks(s) ==
  IF ~PoolBusy(s)
  THEN [DestroyAll(s, {r.chunk : r \in {x \in s.oldChunks : x.chunk # 0}})
          EXCEPT !.oldChunks = {}]
  ELSE s

\* the create loop of the quadtree Update: every node without a record is
\* marked pending and its creation started
RECURSIVE CreateLoopQuad(_, _)
CreateLoopQuad(s, nodes) ==
  IF nodes = << >> THEN s
  ELSE LET key == Head(nodes)
       IN IF key \in DOMAIN s.chunks
          THEN CreateLoopQuad(s, Tail(nodes))
          ELSE CreateLoopQuad(
                 StartCreation([s EXCEPT !.chunks =
                     Put(@, key, [pending |-> TRUE, chunk |-> 0])], key),
                 Tail(nodes))

\* how many creations the create loop of the quadtree Update starts
StartsQuad(s) == Cardinality(SeqSet(BuildQuadTree(s.camera)) \ DOMAIN s.chunks)

\* FlatTerrainManager.Update of src/server.js, and the promise
\* continuations of the creations it starts
UpdateQuad(s) ==
  LET s1 == RecycleOldChunks(s)
      nodes == BuildQuadTree(s.camera)
      gone == DOMAIN s1.chunks \ SeqSet(nodes)
      s2 == [s1 EXCEPT !.desired = SeqSet(nodes),
                       !.oldChunks = @ \cup {s1.chunks[k] : k \in gone},
                       !.chunks = [k \in DOMAIN s1.chunks \ gone |-> s1.chunks[k]]]
      s3 == CreateLoopQuad(s2, nodes)
      s4 == PlaceChunks(s3, ReadyChunks(s3), TRUE)
  IN AdvanceAll(s4, s.nextId..(s4.nextId - 1))

\* ------------------------------------------------------------------ actions
Commit(s) ==
  /\ cache' = s.cache
  /\ accessOrder' = s.accessOrder
  /\ recency' = s.recency
  /\ lastEvict' = s.lastEvict
  /\ pending' = s.pending
  /\ fetches' = s.fetches
  /\ waitOn' = s.waitOn
  /\ got' = s.got
  /\ lookup' = s.lookup
  /\ calc' = s.calc
  /\ config' = s.config
  /\ free' = s.free
  /\ busy' = s.busy
  /\ queue' = s.queue
  /\ inbox' = s.inbox
  /\ resolveOf' = s.resolveOf
  /\ jobs' = s.jobs
  /\ variant' = s.variant
  /\ camera' = s.camera
  /\ chunks' = s.chunks
  /\ loadingChunks' = s.loadingChunks
  /\ oldChunks' = s.oldChunks
  /\ desired' = s.desired
  /\ lod' = s.lod
  /\ creation' = s.creation
  /\ chunkObj' = s.chunkObj
  /\ nextId' = s.nextId
  /\ inScene' = s.inScene

\* ------------------------------------- MapboxTerrainProvider configuration
\* Numbers are held in tenths (12 is 120, 0.5 is 5), so that fractions and
\* Math.floor are modelled; a params object holds the properties passed.
Tenths(n) == n * 10

\* params.f || d of JavaScript on these values: undefined (a property that
\* was not passed) and 0 are falsy
OrElse(params, f, d) ==
  IF f \notin DOMAIN params THEN d
  ELSE IF params[f] = 0 THEN d ELSE params[f]

\* Math.floor, Math.min, Math.max on tenths
Floor(a) == (a \div 10) * 10
MathMin(a, b) == IF a < b THEN a ELSE b
MathMax(a, b) == IF a > b THEN a ELSE b

\* new MapboxTerrainProvider(params): no statement of the constructor, nor
\* of the TileCache constructor it calls, throws. The new provider has its
\* own empty TileCache and LoadingTracker.
ProviderNew(s, params) ==
  [s EXCEPT !.config = [zoom |-> OrElse(params, "zoom", Tenths(12)),
                        maxSize |-> OrElse(params, "cacheSize", Tenths(256)),
                        heightScale |-> OrElse(params, "heightScale", Tenths(1)),
                        accessToken |-> UrlToken,
                        op |-> "new", arg |-> params, threw |-> FALSE],
            !.cache = << >>, !.accessOrder = << >>, !.recency = << >>,
            !.lastEvict = << >>, !.pending = << >>]

\* set accessToken(token)
SetAccessToken(s, token) ==
  [s EXCEPT !.config.accessToken = token,
            !.config.op = "accessToken",
            !.config.arg = [accessToken |-> token],
            !.config.threw = FALSE]

\* set zoom(z)
SetZoom(s, z) ==
  [s EXCEPT !.config.zoom = MathMax(0, MathMin(Tenths(15), Floor(z))),
            !.config.op = "zoom", !.config.arg = [zoom |-> z], !.config.threw = FALSE]

\* set heightScale(scale)
SetHeightScale(s, scale) ==
  [s EXCEPT !.config.heightScale = scale,
            !.config.op = "heightScale",
            !.config.arg = [heightScale |-> scale],
            !.config.threw = FALSE]

\* _initTerrainProvider: the provider the manager constructs (its cacheSize
\* of 512 is the capacity MaxSize of the cache of the model)
InitialParams ==
  [zoom |-> Tenths(Zoom), heightScale |-> Tenths(1), cacheSize |-> Tenths(MaxSize)]
InitialConfig ==
  [zoom |-> OrElse(InitialParams, "zoom", Tenths(12)),
   maxSize |-> OrElse(InitialParams, "cacheSize", Tenths(256)),
   heightScale |-> OrElse(InitialParams, "heightScale", Tenths(1)),
   accessToken |-> UrlToken,
   op |-> "new", arg |-> InitialParams, threw |-> FALSE]

\* the state after the constructors have run, for a manager of variant v
\* with its camera at cam and LOD parameters l
InitWith(v, cam, l) ==
  /\ cache = << >>
  /\ accessOrder = << >>
  /\ recency = << >>
  /\ lastEvict = << >>
  /\ pending = << >>
  /\ fetches = << >>
  /\ waitOn = [c \in Ids |-> {}]
  /\ got = [c \in Ids |-> {}]
  /\ lookup = NoLookup
  /\ calc = [op |-> "none", in |-> << >>, out |-> << >>]
  /\ config = InitialConfig
  /\ free = [i \in 1..NumWorkers |-> i]
  /\ busy = {}
  /\ queue = << >>
  /\ inbox = [w \in Workers |-> << >>]
  /\ resolveOf = [w \in Workers |-> 0]
  /\ jobs = [c \in Ids |-> [kind |-> "none", done |-> 0, result |-> 0]]
  /\ variant = v
  /\ camera = cam
  /\ chunks = << >>
  /\ loadingChunks = 0
  /\ oldChunks = {}
  /\ desired = {}
  /\ lod = l
  /\ creation = [c \in Ids |-> [key |-> << >>, stage |-> "none"]]
  /\ chunkObj = [c \in Ids |-> NoChunk]
  /\ nextId = 1
  /\ inScene = TRUE

\* the manager of the model: camera at the first viewpoint, the parameters
\* of the constructor
InitOf(v) ==
  InitWith(v, [x |-> 0, z |-> ChunkSize \div 2],
           LodOf(ViewDistance, ChunkSize, MaxChunkSize))

Init == InitOf("grid")

\* --- TileCache used directly
\* a client calls get(z, x, y)
CacheGet(key) ==
  /\ key \in TileKeys
  /\ Commit(TileCacheGet(State, key))

\* a client calls set(z, x, y, data), resident key or not
CacheSet(key, data) ==
  /\ Len(accessOrder) < MaxOrderLen
  /\ Commit(TileCacheSet(State, key, data))

NextCache ==
  \/ \E key \in TileKeys : CacheGet(key)
  \/ \E key \in TileKeys, z \in BOOLEAN : CacheSet(key, [tile |-> key, zero |-> z,
                                                          scale |-> IF z THEN 0 ELSE config.heightScale])

SpecCache == Init /\ [][NextCache]_vars

\* --- MapboxTerrainProvider used by independent callers
\* caller c, not awaiting anything, calls loadTile(z, x, y)
CallLoadTile(c, key) ==
  /\ waitOn[c] = {}
  /\ \/ key \in DOMAIN cache
     \/ key \in DOMAIN pending
     \/ Len(fetches) < MaxFetches
  /\ Commit(LoadTile([State EXCEPT !.got[c] = {}], c, key))

\* fetch() of fetch f settles: a 200 response, an HTTP error response, or a
\* rejection (network failure)
FetchResponse(f, outcome) ==
  /\ f \in DOMAIN fetches
  /\ fetches[f].phase = "fetching"
  /\ Commit(FetchSettles(State, f, outcome))

\* The Image of fetch f fires onload or onerror, and the continuations of
\* everything awaiting the tile run.  An error body never decodes.
ImageSettle(f, loaded) ==
  /\ f \in DOMAIN fetches
  /\ fetches[f].phase = "image"
  /\ loaded => fetches[f].body = "png"
  /\ LET s1 == FulfilFetch(State, f, ImageData(State, f, loaded))
         r == AdvanceAll(s1, Waiters(State, f))
     IN /\ Len(r.fetches) <= MaxFetches
        /\ Commit(r)

FetchOutcomes == {"ok", "http_error", "network_error"}

\* --- the synchronous lookups, next to one caller of loadTile
SyncLookup(op, key) ==
  /\ key \in TileKeys
  /\ Commit(CASE op = "isTileCached" -> IsTileCached(State, key)
            [] op = "getCachedTile" -> GetCachedTile(State, key)
            [] op = "Get" -> HeightGeneratorGet(State, key))

LookupOps == {"isTileCached", "getCachedTile", "Get"}

LookupTiles == {MakeTileKey(Zoom, x, 0) : x \in 0..(NumLookupTiles - 1)}

NextTiles ==
  \/ \E c \in 1..NumCallers, key \in TileKeys : CallLoadTile(c, key)
  \/ \E f \in 1..MaxFetches, o \in FetchOutcomes : FetchResponse(f, o)
  \/ \E f \in 1..MaxFetches, l \in BOOLEAN : ImageSettle(f, l)

SpecTiles == Init /\ [][NextTiles]_vars

NextLookups ==
  \/ \E key \in LookupTiles : CallLoadTile(1, key)
  \/ \E f \in 1..MaxFetches, o \in FetchOutcomes : FetchResponse(f, o)
  \/ \E f \in 1..MaxFetches, l \in BOOLEAN : ImageSettle(f, l)
  \/ \E op \in LookupOps, key \in LookupTiles : SyncLookup(op, key)

SpecLookups == Init /\ [][NextLookups]_vars

\* --- WorkerPool used directly
\* a client enqueues a new job whose callback is of the given kind
Enqueue(kind) ==
  /\ nextId <= MaxJobs
  /\ Commit(PoolEnqueue([State EXCEPT
                           !.nextId = @ + 1,
                           !.jobs[nextId] =
                              [kind |-> kind, done |-> 0, result |-> 0]],
                        nextId))

\* worker w takes the oldest message it holds
WorkerReply(w) ==
  /\ inbox[w] # << >>
  /\ Commit(SelfOnMessage(State, w))

NextPool ==
  \/ \E kind \in {"plain", "spawn"} : Enqueue(kind)
  \/ \E w \in Workers : WorkerReply(w)

SpecPool == Init /\ [][NextPool]_vars

\* --- the LOD selection on its own, over viewpoints and parameters
\* viewpoints: integer positions up to LodRange from the origin
LodRange == 1
LodViewpoints == {[x |-> i, z |-> j] : i, j \in (0 - LodRange)..LodRange}
\* _viewDistance (the GUI allows 1000 to 50000; the constructor sets 8000),
\* _chunkSize and _maxChunkSize, in units of 1000 metres
LodViewDistances == {1, 3, 8, 17}
LodChunkSizes == {1, 2}
LodMaxChunkSize == 16

\* Update computes the desired descriptors for the current viewpoint
LodSelect ==
  /\ ~lod.done
  /\ Commit([State EXCEPT !.lod.nodes = SelectLod(variant, camera, lod),
                          !.lod.done = TRUE])

\* the camera moves to another viewpoint
LodMove(p) ==
  /\ p # camera
  /\ Commit([State EXCEPT !.camera = p, !.lod.nodes = << >>, !.lod.done = FALSE,
                          !.lod.root = << >>, !.lod.split = {}])

\* the 'viewDistance' control of the GUI changes _viewDistance
LodSetViewDistance(v) ==
  /\ v # lod.viewDistance
  /\ Commit([State EXCEPT !.lod.viewDistance = v,
                          !.lod.nodes = << >>, !.lod.done = FALSE,
                          !.lod.root = << >>, !.lod.split = {}])

NextLod ==
  \/ LodSelect
  \/ \E p \in LodViewpoints : LodMove(p)
  \/ \E v \in LodViewDistances : LodSetViewDistance(v)

InitLod ==
  \E v \in {"grid", "quad"}, p \in LodViewpoints,
     vd \in LodViewDistances, cs \in LodChunkSizes :
    InitWith(v, p, LodOf(vd, cs, LodMaxChunkSize))

SpecLod == InitLod /\ [][NextLod]_vars

\* --- the configuration of the provider: its constructor and its setters
\* the values a caller passes, in tenths: -1, 0, 0.5, 1, 12, 15.5, 20
ZoomInputs == {-10, 0, 5, 120, 155, 200}
HeightScaleInputs == {-10, 0, 5, 10}
CacheSizeInputs == {-10, 0, 20}

\* the params objects: any subset of the three properties, any values
ParamInputs ==
  [zoom |-> ZoomInputs, heightScale |-> HeightScaleInputs,
   cacheSize |-> CacheSizeInputs]
ProviderParams ==
  UNION {{params \in [fs -> ZoomInputs \cup HeightScaleInputs \cup CacheSizeInputs] :
             \A f \in fs : params[f] \in ParamInputs[f]} :
           fs \in SUBSET {"zoom", "heightScale", "cacheSize"}}

ConstructProvider(params) ==
  /\ params \in ProviderParams
  /\ Commit(ProviderNew(State, params))

ZoomSetter(z) ==
  /\ z \in ZoomInputs
  /\ Commit(SetZoom(State, z))

HeightScaleSetter(scale) ==
  /\ scale \in HeightScaleInputs
  /\ Commit(SetHeightScale(State, scale))

NextConfig ==
  \/ \E params \in ProviderParams : ConstructProvider(params)
  \/ \E z \in ZoomInputs : ZoomSetter(z)
  \/ \E h \in HeightScaleInputs : HeightScaleSetter(h)

SpecConfig == Init /\ [][NextConfig]_vars

\* --- decoding a terrain-rgb pixel
\* decodeHeight(r, g, b), in tenths of a metre
DecodeHeightNoOffset(r, g, b) == r * 256 * 256 + g * 256 + b

DecodeHeight(r, g, b) == (r * 256 * 256 + g * 256 + b) - 100000

\* the channel values of the pixels decoded
PixelValues == {0, 3, 255}

\* One pass of the decode loop of img.onload, for the pixel (r, g, b):
\* heights[i] = decodeHeight(r, g, b) * this._heightScale. The height is in
\* tenths and _heightScale is in tenths, so the sample is in hundredths.
DecodePixel(r, g, b) ==
  /\ {r, g, b} \subseteq PixelValues
  /\ Commit([State EXCEPT !.calc =
        [op |-> "decode", in |-> <<r, g, b>>,
         out |-> [height |-> DecodeHeight(r, g, b),
                  sample |-> DecodeHeight(r, g, b) * config.heightScale]]])

\* --- bilinear sampling of a height grid
\* TILE_SIZE / tileSize of the grids sampled here (256 in the source)
SampleSize == 3
\* Fractional coordinates are FracDen-ths: u is un / FracDen. Every grid
\* sample i / (size - 1) is such a fraction.
FracDen == 2 * (SampleSize - 1)
\* tile.heights / heightData: size * size samples, row after row, no two
\* rows or columns alike
SampleGrid == [i \in 0..(SampleSize * SampleSize - 1) |-> 7 * i * i + 1]

\* x0, x1 (or y0, y1) and fx (or fy), for the fractional coordinate un:
\*   px = u * (size - 1); x0 = Math.floor(px);
\*   x1 = Math.min(x0 + 1, size - 1); fx = px - x0
Axis(size, un) ==
  LET x0 == (un * (size - 1)) \div FracDen
  IN [c0 |-> x0, c1 |-> MathMin(x0 + 1, size - 1),
      f |-> un * (size - 1) - x0 * FracDen]

\* heights[i] || 0: a read outside the array is undefined, and then 0
ReadOrZero(heights, i) == IF i \in DOMAIN heights THEN heights[i] ELSE 0

\* The interpolation both samplers end with, on the corners ax, ay. The
\* value is in FracDen * FracDen-ths.
Interpolate(heights, size, ax, ay) ==
  LET i00 == ay.c0 * size + ax.c0
      i10 == ay.c0 * size + ax.c1
      i01 == ay.c1 * size + ax.c0
      i11 == ay.c1 * size + ax.c1
      h0 == ReadOrZero(heights, i00) * (FracDen - ax.f)
              + ReadOrZero(heights, i10) * ax.f
      h1 == ReadOrZero(heights, i01) * (FracDen - ax.f)
              + ReadOrZero(heights, i11) * ax.f
  IN [corners |-> [x0 |-> ax.c0, x1 |-> ax.c1, y0 |-> ay.c0, y1 |-> ay.c1],
      reads |-> {i00, i10, i01, i11},
      value |-> h0 * (FracDen - ay.f) + h1 * ay.f]

\* getHeightAt and MapboxHeightGenerator.Get after the tile is at hand:
\* fracX, fracY come from getFractionalTileCoords and are in [0, 1), so no
\* read is outside the array
PointSample(heights, size, fracX, fracY) ==
  Interpolate(heights, size, Axis(size, fracX), Axis(size, fracY))

\* sampleHeightBilinear(heightData, tileSize, u, v): v = 1 - v; u = 1 - u
SampleHeightBilinear(heights, size, un, vn) ==
  Interpolate(heights, size, Axis(size, FracDen - un), Axis(size, FracDen - vn))

\* getHeightAt(lon, lat) or Get(x, y, z) whose position has these fractional
\* tile coordinates
SamplePoint(op, fracX, fracY) ==
  /\ op \in {"getHeightAt", "Get"}
  /\ {fracX, fracY} \subseteq 0..(FracDen - 1)
  /\ Commit([State EXCEPT !.calc =
        [op |-> op, in |-> <<fracX, fracY>>,
         out |-> PointSample(SampleGrid, SampleSize, fracX, fracY)]])

\* sampleHeightBilinear(heightData, tileSize, u, v), u and v from just below
\* 0 to just above 1
SampleMesh(un, vn) ==
  /\ {un, vn} \subseteq (0 - 1)..(FracDen + 1)
  /\ Commit([State EXCEPT !.calc =
        [op |-> "sampleHeightBilinear", in |-> <<un, vn>>,
         out |-> SampleHeightBilinear(SampleGrid, SampleSize, un, vn)]])

\* --- building a mesh: FlatTerrainBuilder.build, TileTerrainBuilder.buildTile
\* the resolutions built, 1..MaxResolution (64 in the source)
MaxResolution == 3

\* the six indices one grid cell pushes, first triangle only
CellIndicesFirstOnly(resolution, x, y) ==
  LET gridSize == resolution + 1
      topLeft == y * gridSize + x
  IN <<topLeft, (y + 1) * gridSize + x, topLeft + 1>>

\* the six indices one grid cell pushes, the second triangle turned round
CellIndicesTurned(resolution, x, y) ==
  LET gridSize == resolution + 1
      topLeft == y * gridSize + x
      bottomLeft == (y + 1) * gridSize + x
  IN <<topLeft, bottomLeft, topLeft + 1, topLeft + 1, bottomLeft + 1, bottomLeft>>

\* the body of the loops of _generateIndices, for the cell (x, y)
CellIndices(resolution, x, y) ==
  LET gridSize == resolution + 1
      topLeft == y * gridSize + x
      topRight == topLeft + 1
      bottomLeft == (y + 1) * gridSize + x
      bottomRight == bottomLeft + 1
  IN <<topLeft, bottomLeft, topRight, topRight, bottomLeft, bottomRight>>

\* _generateIndices(resolution): for y, then for x, push the cell's indices
GenerateIndices(resolution) ==
  Flatten([c \in 1..(resolution * resolution) |->
             CellIndices(resolution, (c - 1) % resolution, (c - 1) \div resolution)])

\* build() / buildTile(): the lengths of the arrays returned, and the indices
BuildMesh(builder, resolution) ==
  /\ builder \in {"build", "buildTile"}
  /\ resolution \in 1..MaxResolution
  /\ LET gridSize == resolution + 1
         positions == gridSize * gridSize * 3
         indices == GenerateIndices(resolution)
     IN Commit([State EXCEPT !.calc =
          [op |-> builder, in |-> <<resolution>>,
           out |-> [positions |-> positions, normals |-> positions,
                    colours |-> gridSize * gridSize * 3,
                    coords |-> gridSize * gridSize * 3,
                    indices |-> indices]]])

\* --- tile ids from longitudes
\* lon2tileX(lon, zoom), and tileX of getFractionalTileCoords:
\*   Math.floor((lon + 180) / 360 * Math.pow(2, zoom)), lon in whole degrees
Lon2TileX(lon, zoom) == ((lon + 180) * (2 ^ zoom)) \div 360

\* the longitudes converted, in degrees
Longitudes == {-180, -90, -1, 0, 90, 179, 180}

\* getHeightAt, prefetchTiles or getTileCoords derives the tile column of
\* longitude lon at the provider's zoom (a whole number here, as the zoom
\* setter leaves it)
TileColumn(caller, lon) ==
  /\ caller \in {"getHeightAt", "prefetchTiles", "getTileCoords"}
  /\ lon \in Longitudes
  /\ config.zoom % 10 = 0 /\ config.zoom >= 0
  /\ Commit([State EXCEPT !.calc =
        [op |-> "tileX", in |-> <<caller, lon, config.zoom \div 10>>,
         out |-> [x |-> Lon2TileX(lon, config.zoom \div 10)]]])

\* --- the functions studied on their own
\* (the setters are given 0.5 and 20 as zoom, 0.5 and 1 as height scale)
NextCalc ==
  \/ \E z \in {5, 200} : ZoomSetter(z)
  \/ \E caller \in {"getHeightAt", "prefetchTiles", "getTileCoords"},
        lon \in Longitudes : TileColumn(caller, lon)
  \/ \E builder \in {"build", "buildTile"}, r \in 1..MaxResolution :
       BuildMesh(builder, r)
  \/ \E h \in {5, 10} : HeightScaleSetter(h)
  \/ \E r, g, b \in PixelValues : DecodePixel(r, g, b)
  \/ \E op \in {"getHeightAt", "Get"}, fx, fy \in 0..(FracDen - 1) :
       SamplePoint(op, fx, fy)
  \/ \E un, vn \in (0 - 1)..(FracDen + 1) : SampleMesh(un, vn)

SpecCalc == Init /\ [][NextCalc]_vars

\* --- _subdivideNode on its own, applied to any node
\* node origins up to MaxNodeOffset from the origin, of these sizes
MaxNodeOffset == 4
SubdivideSizes == {1, 2, 4}
SubdivideNodes ==
  {MakeKey(x, z, sz) : x, z \in (0 - MaxNodeOffset)..MaxNodeOffset,
                       sz \in SubdivideSizes}

\* _subdivideNode(node, cameraPos, results)
SubdivideCall(node) ==
  /\ ~lod.done
  /\ Commit([State EXCEPT
        !.lod.root = node,
        !.lod.nodes = SubdivideNodeFor(node, camera, lod.viewDistance,
                                       lod.chunkSize),
        !.lod.split = SplitNodesFor(node, camera, lod.chunkSize),
        !.lod.done = TRUE])

\* _buildQuadTree(cameraPos): _subdivideNode on the root square
SubdivideRoot ==
  SubdivideCall(MakeKey(camera.x - lod.maxChunkSize,
                        camera.z - lod.maxChunkSize, lod.maxChunkSize * 2))

NextSubdivide ==
  \/ \E node \in SubdivideNodes : SubdivideCall(node)
  \/ SubdivideRoot
  \/ \E p \in LodViewpoints : LodMove(p)

InitSubdivide ==
  \E p \in LodViewpoints, cs \in LodChunkSizes :
    InitWith("quad", p, LodOf(ViewDistance, cs, LodMaxChunkSize))

SpecSubdivide == InitSubdivide /\ [][NextSubdivide]_vars

\* --- FlatTerrainManager in its frame loop
\* the controls move the camera
MoveCamera(p) ==
  /\ p # camera
  /\ Commit([State EXCEPT !.camera = p])

\* a frame of the fixed-grid manager
FrameGrid ==
  /\ variant = "grid"
  /\ nextId + StartsGrid(State) <= MaxCreations + 1
  /\ LET r == UpdateGrid(State)
     IN /\ Len(r.fetches) <= MaxFetches
        /\ Commit(r)

\* a frame of the quadtree manager
FrameQuad ==
  /\ variant = "quad"
  /\ nextId + StartsQuad(State) <= MaxCreations + 1
  /\ LET r == UpdateQuad(State)
     IN /\ Len(r.fetches) <= MaxFetches
        /\ Commit(r)

\* a GUI setting whose onChange calls _rebuildAllChunks (height scale)
SettingsChange ==
  /\ chunks # << >>
  /\ Commit(RebuildAllChunks(State))

NextManager ==
  \/ \E p \in CameraPositions : MoveCamera(p)
  \/ FrameGrid
  \/ FrameQuad
  \/ SettingsChange
  \/ \E f \in 1..MaxFetches, o \in FetchOutcomes : FetchResponse(f, o)
  \/ \E f \in 1..MaxFetches, l \in BOOLEAN : ImageSettle(f, l)
  \/ \E w \in Workers : WorkerReply(w)

InitManager == \E v \in {"grid", "quad"} : InitOf(v)

SpecManager == InitManager /\ [][NextManager]_vars

\* ================================================================== claims
\* the fetches of tile key whose promise has not settled
InFlight(key) ==
  {f \in DOMAIN fetches : fetches[f].tile = key /\ fetches[f].phase # "settled"}

\* what every state and every step of the tile provider satisfies
C1_State ==
  /\ \A key \in TileKeys : Cardinality(InFlight(key)) <= 1
  /\ \A c \in Ids : \A f \in waitOn[c] :
        /\ fetches[f].phase # "settled"
        /\ fetches[f].tile \in DOMAIN pending
        /\ pending[fetches[f].tile] = f

C1_Delivery ==
  \A f \in DOMAIN fetches :
    (fetches[f].phase # "settled" /\ fetches'[f].phase = "settled") =>
      \A c \in Ids : f \in waitOn[c] =>
        /\ f \notin waitOn'[c]
        /\ [tile |-> fetches[f].tile, zero |-> fetches'[f].result = "zeros",
            scale |-> IF fetches'[f].result = "zeros" THEN 0 ELSE config.heightScale]
             \in got'[c]

\* C1: a loadTile call for a tile whose load is in flight starts no second
\* underlying fetch: at most one fetch per tile id is in flight at any time,
\* every caller awaiting a tile holds the promise of that one fetch (the one
\* the tracker registers), and when it fulfils every such caller receives its
\* data.
C1_SingleFetchPerTile == [](C1_State) /\ [][C1_Delivery]_vars

\* C1 witness: two callers await the same fetch
C1_Witness ==
  \E c1 \in Ids, c2 \in Ids : c1 # c2 /\ waitOn[c1] \cap waitOn[c2] # {}

\* C2: after any sequence of get and set calls (set of a resident key
\* included) the number of resident entries never exceeds maxSize.
C2_CapacityRespected == Cardinality(DOMAIN cache) <= MaxSize

\* C2 witness: the cache is full and set has evicted an entry to keep it so
C2_Witness == Cardinality(DOMAIN cache) = MaxSize /\ lastEvict # << >>

\* C3: whenever TileCache.set evicts an entry, the entry is the least
\* recently accessed (by get or set) among the residents at that moment.
C3_EvictsLeastRecentlyUsed == lastEvict # << >> => lastEvict[1] = lastEvict[2]

\* the fetch of f has failed: fetch() rejected, or the failure was handled
FetchFailed(f) ==
  \/ fetches[f].phase = "rejected"
  \/ fetches[f].phase = "settled" /\ fetches[f].result = "zeros"

\* C4: when the underlying fetch or decode of a tile fails in any way
\* (fetch() rejects, HTTP error, image decode error), loadTile settles for
\* every waiting caller with the all-zero grid and the tile's in-flight
\* registration is cleared: once the failure has been handled the fetch has
\* settled with zeros, nobody awaits it and the tracker no longer holds it.
C4_FailureSettlesWithZeros ==
  \A f \in DOMAIN fetches : FetchFailed(f) =>
    /\ fetches[f].phase = "settled"
    /\ fetches[f].result = "zeros"
    /\ \A c \in Ids : f \notin waitOn[c]
    /\ ~(fetches[f].tile \in DOMAIN pending /\ pending[fetches[f].tile] = f)

\* the creations started and not yet settled
CreationsInFlight ==
  {c \in Ids : creation[c].stage \in {"prefetch", "heights", "pool"}}

\* C5: if a tile fetch needed by a chunk fails, the chunk does not stay
\* Pending forever and its load slot is released.  Stated on finite runs: a
\* creation that has not settled never waits on a fetch for which no further
\* network or image event is due, since only such an event resumes it.
C5_FailedFetchStillSettles ==
  \A c \in CreationsInFlight :
    \A f \in waitOn[c] : fetches[f].phase \in {"fetching", "image"}

\* the desired key set for a camera position, in the running variant
DesiredKeys(cam) ==
  IF variant = "grid" THEN SeqSet(VisibleChunkKeys(cam))
  ELSE SeqSet(BuildQuadTree(cam))

\* a build that completes for a key that left the desired set
C6_Step ==
  \A c \in Ids :
    ( /\ creation[c].stage = "pool"
      /\ creation'[c].stage = "settled"
      /\ creation[c].key \notin desired
      /\ creation[c].key \notin DesiredKeys(camera) )
    => /\ chunkObj'[c].destroys > 0
       /\ ~chunkObj'[c].visible
       /\ \A k \in DOMAIN chunks' : chunks'[k].chunk # c

\* C6: if a key leaves the desired set while its build is Pending and the
\* build completes while the key is still not desired, the completed chunk is
\* destroyed and is neither shown nor stored as Ready.
C6_UndesiredBuildIsDiscarded == [][C6_Step]_vars

\* what a frame leaves behind
C7_Step ==
  (FrameGrid \/ FrameQuad) =>
    /\ \A k \in DOMAIN chunks' : IsReady(chunks'[k]) => k \in desired'
    /\ \A k \in DOMAIN chunks :
          (IsReady(chunks[k]) /\ k \notin desired') =>
             chunkObj'[chunks[k].chunk].destroys > 0
    /\ \A k \in DOMAIN chunks :
          chunks[k].pending => (k \in DOMAIN chunks' /\ chunks'[k].pending)

\* C7: at the end of every Update no Ready record remains under a key
\* outside the desired set computed in that Update, every chunk removed for
\* that reason had destroy() called on it within the same Update, and Pending
\* records are not removed by the Update.
C7_UpdateRemovesReadyOnly == [][C7_Step]_vars

\* C8: in the fixed-grid manager the number of chunk creations started and
\* not yet settled never exceeds _maxConcurrentLoads, however the camera
\* moves and whenever a settings change clears the resident set.
C8_LoadsBounded ==
  variant = "grid" => Cardinality(CreationsInFlight) <= MaxConcurrentLoads

\* C8 witness: every load slot is taken, a desired key has no record and
\* waits for a slot, and a settings change has cleared the resident set
C8_Witness ==
  /\ variant = "grid"
  /\ Cardinality(CreationsInFlight) = MaxConcurrentLoads
  /\ loadingChunks = MaxConcurrentLoads
  /\ desired \ DOMAIN chunks # {}
  /\ oldChunks # {}

\* a chunk whose build has settled and that has not been destroyed is still
\* held by the manager: as the chunk of a Ready record or on the old-chunk list
C9_Held ==
  \A c \in Ids :
    (chunkObj[c].made /\ chunkObj[c].destroys = 0 /\ creation[c].stage = "settled")
    => \/ c \in ReadyChunks(State)
       \/ c \in {r.chunk : r \in oldChunks}

\* an Update that runs while the worker pool is idle destroys every chunk
\* that was on the old-chunk list
C9_Recycled ==
  ((FrameGrid \/ FrameQuad) /\ ~PoolBusy(State)) =>
    \A r \in oldChunks : r.chunk # 0 => chunkObj'[r.chunk].destroys > 0

\* C9: every chunk that was created is eventually either the Ready chunk of
\* a resident record or has destroy() called on it.  Stated on finite runs: a
\* built, undestroyed chunk is the Ready chunk of a resident record or is on
\* the old-chunk list (a chunk in the scene group that nothing holds can never
\* be destroyed), and the chunks on the old-chunk list are destroyed by the
\* next Update that finds the worker pool idle.
C9_NoChunkLeftBehind == [](C9_Held) /\ [][C9_Recycled]_vars

\* the jobs posted to a worker and not yet answered
Outstanding ==
  {<<w, i>> \in Workers \X (1..MaxIds) : i <= Len(inbox[w])}

\* C10: each worker has at most one outstanding job, no job is handed to
\* two workers, every worker is in exactly one of _free and _busy, and the
\* jobs in flight never exceed the pool size, re-entrant enqueues included.
C10_PoolInvariant ==
  /\ \A w \in Workers : Len(inbox[w]) <= 1
  /\ \A w1 \in Workers, w2 \in Workers :
        w1 # w2 => SeqSet(inbox[w1]) \cap SeqSet(inbox[w2]) = {}
  /\ SeqSet(free) \cap busy = {}
  /\ SeqSet(free) \cup busy = Workers
  /\ Len(free) = Cardinality(SeqSet(free))
  /\ \A w \in Workers : w \in busy <=> inbox[w] # << >>
  /\ Cardinality(Outstanding) <= NumWorkers

\* C10 witness: a callback has enqueued a job from inside the pool's
\* completion closure while every worker is busy and a job is queued
C10_Witness ==
  /\ \E j \in Ids : jobs[j].kind = "spawn" /\ jobs[j].done = 1
  /\ busy = Workers
  /\ queue # << >>

\* the jobs that have been enqueued on the pool
Enqueued == {j \in Ids : jobs[j].kind # "none"}

\* C11: each enqueued job's completion callback is invoked exactly once and
\* receives the result the worker produced for that job's own work item,
\* whatever order the workers finish in: no callback runs twice, a callback
\* that ran holds the reply to its own job, and once the pool is idle every
\* enqueued job's callback has run.
C11_ExactlyOnceOwnResult ==
  \A j \in Enqueued :
    /\ jobs[j].done <= 1
    /\ jobs[j].done = 1 => jobs[j].result = j
    /\ ~PoolBusy(State) => jobs[j].done = 1

\* C11 witness: more jobs than workers were enqueued, all are complete, and
\* the workers came back to _free in another order than they started in
C11_Witness ==
  /\ Cardinality(Enqueued) > NumWorkers
  /\ \A j \in Enqueued : jobs[j].done = 1
  /\ ~PoolBusy(State)
  /\ free # [i \in 1..NumWorkers |-> i]

\* the jobs that have been posted to a worker (started)
Posted == Enqueued \ SeqSet(queue)

\* C12: jobs are started in the order they were enqueued.  The pool's clients
\* number their jobs in the order they enqueue them, and _pump always posts
\* the head of the queue; so the claim is that the queue holds its jobs in
\* enqueue order and that no queued job was enqueued before a started one.
C12_FifoStart ==
  /\ \A i \in DOMAIN queue, j \in DOMAIN queue : i < j => queue[i] < queue[j]
  /\ \A a \in Posted, b \in SeqSet(queue) : a < b

\* C12 witness: a job that had to wait in the queue has been started after a
\* completion, while a job enqueued after it is still queued
C12_Witness ==
  /\ \E a \in Posted : a > NumWorkers
  /\ queue # << >>
  /\ \E j \in Enqueued : jobs[j].done = 1

\* a job has been posted to a worker and its completion is not yet delivered
InFlightJobs == {w \in Workers : inbox[w] # << >>}

\* C13: WorkerPool.busy is true exactly when at least one job is queued or
\* at least one job has been posted to a worker and its completion has not
\* been delivered; it is false when the queue is empty and every worker is
\* free.
C13_BusyMeansWorkOutstanding ==
  /\ PoolBusy(State) <=> (queue # << >> \/ InFlightJobs # {})
  /\ (queue = << >> /\ SeqSet(free) = Workers) => ~PoolBusy(State)

\* C13 witness: the queue has drained after a completion and the pool is busy
\* only because a job is still with a worker
C13_Witness ==
  /\ queue = << >>
  /\ InFlightJobs # {}
  /\ PoolBusy(State)
  /\ \E j \in Enqueued : jobs[j].done = 1

\* C14: loadTile on a resident tile returns the cached grid without starting
\* an underlying fetch or registering an in-flight load, and makes that tile
\* the most recently used entry of the LRU order.  In every state the manager
\* reaches, a loadTile call by any caller on any resident tile has this
\* effect: the tile ends as the last, and only as the last, key of the order.
C14_ResidentHit ==
  \A key \in DOMAIN cache, c \in Ids :
    LET r == LoadTile(State, c, key)
    IN /\ cache[key] \in r.got[c]
       /\ r.waitOn[c] = waitOn[c]
       /\ r.fetches = fetches
       /\ r.pending = pending
       /\ r.cache = cache
       /\ Last(r.accessOrder) = key
       /\ key \notin SeqSet(Front(r.accessOrder))
       /\ SeqSet(r.accessOrder) = SeqSet(accessOrder)

\* C14 witness: a chunk creation has passed _getHeightDataForChunk, whose
\* loadTile calls found the tiles prefetchTiles had made resident, and the
\* tile it asked for last is the most recently used one
C14_Witness ==
  \E c \in Ids :
    /\ creation[c].stage \in {"pool", "settled"}
    /\ Len(TilesForChunk(creation[c].key)) >= 2
    /\ got[c] # {}
    /\ accessOrder # << >>
    /\ Last(accessOrder) = Last(TilesForChunk(creation[c].key))

\* a synchronous lookup: what it may change and what it reports on a miss
C15_Step ==
  \A op \in LookupOps, key \in TileKeys :
    SyncLookup(op, key) =>
      /\ fetches' = fetches
      /\ pending' = pending
      /\ waitOn' = waitOn
      /\ cache' = cache
      /\ key \notin DOMAIN cache =>
           /\ accessOrder' = accessOrder
           /\ lookup'.found = FALSE
           /\ lookup'.tile = {}
           /\ lookup'.height = DefaultHeight
           /\ lookup'.weight = 0

\* C15: isTileCached, getCachedTile and MapboxHeightGenerator.Get never
\* start a fetch and never register an in-flight load; for a tile that is not
\* resident they report false, null and [defaultHeight, 0], and the resident
\* tiles stay as they were.
C15_LookupsNeverFetch == [][C15_Step]_vars

\* C15 witness: Get was asked for a tile that is not resident, reported
\* weight 0, and the tile is one whose load is in flight
C15_Witness ==
  /\ lookup.op = "Get"
  /\ lookup.weight = 0
  /\ lookup.key \in DOMAIN pending
  /\ lookup.key \notin DOMAIN cache
  /\ cache # << >>

\* the square of descriptor k holds the point p (its low edges included)
Contains(k, p) ==
  /\ KeyX(k) <= p.x /\ p.x < KeyX(k) + KeySize(k)
  /\ KeyZ(k) <= p.z /\ p.z < KeyZ(k) + KeySize(k)

\* C16: for every viewpoint, viewDistance and chunkSize, every key of the
\* desired set has its chunk centre at a distance strictly less than
\* viewDistance + chunkSize from the viewpoint, and the chunk containing the
\* viewpoint is in the set; with the viewpoint at the origin, viewDistance
\* 8000 and chunkSize 1000 (8 and 1 here) the set contains key 0/0/1000.
C16_DesiredKeysNearViewpoint ==
  lod.done =>
    /\ \A k \in SeqSet(lod.nodes) :
          Dist2x2(k, camera) < Sq(2 * (lod.viewDistance + lod.chunkSize))
    /\ \E k \in SeqSet(lod.nodes) : Contains(k, camera)
    /\ (camera = [x |-> 0, z |-> 0] /\ lod.viewDistance = 8 /\ lod.chunkSize = 1)
          => MakeKey(0, 0, 1) \in SeqSet(lod.nodes)

\* the squares of descriptors a and b share interior points
Overlap(a, b) ==
  /\ KeyX(a) < KeyX(b) + KeySize(b) /\ KeyX(b) < KeyX(a) + KeySize(a)
  /\ KeyZ(a) < KeyZ(b) + KeySize(b) /\ KeyZ(b) < KeyZ(a) + KeySize(a)

\* the world points with whole coordinates closer to the viewpoint than viewDist
PointsWithin(cam, viewDist) ==
  {p \in [x : (cam.x - viewDist)..(cam.x + viewDist),
          z : (cam.z - viewDist)..(cam.z + viewDist)] :
      Sq(p.x - cam.x) + Sq(p.z - cam.z) < Sq(viewDist)}

\* C17: the terminal descriptors of one selection are pairwise distinct, their
\* bounds never overlap, and every world point within viewDistance of the
\* viewpoint lies inside some descriptor (no gaps), for every viewDistance
\* the configuration allows.
C17_DescriptorsTileTheView ==
  lod.done =>
    LET sel == SeqSet(lod.nodes) IN
    /\ Cardinality(sel) = Len(lod.nodes)
    /\ \A a, b \in sel : a # b => ~Overlap(a, b)
    /\ \A p \in PointsWithin(camera, lod.viewDistance) :
          \E k \in sel : Contains(k, p)

\* the nodes a _subdivideNode call has looked at: the node it was called on
\* and the children of every node it subdivided
VisitedNodes ==
  IF lod.root = << >> THEN {}
  ELSE {lod.root} \cup UNION {SeqSet(Subdivide(n)) : n \in lod.split}

\* the centre of node n is exactly 2 x n.size away from the viewpoint
OnThreshold(n) == Dist2x2(n, camera) = Sq(2 * (KeySize(n) * 2))

\* C18: in the quadtree selection a node whose centre distance to the
\* viewpoint equals the subdivision threshold (2 x node.size) is not
\* subdivided; a node is subdivided only when the distance is strictly below
\* the threshold and its size is strictly larger than the minimum chunk size,
\* so the recursion terminates: no node smaller than half the minimum chunk
\* size is ever looked at.
C18_SubdivideStrictly ==
  /\ \A n \in VisitedNodes : OnThreshold(n) => n \notin lod.split
  /\ \A n \in lod.split :
        /\ Dist2x2(n, camera) < Sq(2 * (KeySize(n) * 2))
        /\ KeySize(n) > lod.chunkSize
  /\ \A n \in VisitedNodes : n = lod.root \/ 2 * KeySize(n) > lod.chunkSize

\* a node larger than the minimum chunk size was looked at while sitting
\* exactly on the threshold, and was left whole
C18_Witness ==
  /\ lod.done
  /\ \E n \in VisitedNodes :
        /\ OnThreshold(n) /\ KeySize(n) > lod.chunkSize
        /\ n \notin lod.split

\* C19: the provider's zoom is always an integer in [0,15]: any value
\* supplied through the constructor parameter or through the zoom setter is
\* clamped into that range, after any sequence of such assignments.
C19_ZoomClamped ==
  /\ config.zoom % 10 = 0
  /\ 0 <= config.zoom /\ config.zoom <= Tenths(15)

\* the call [op, arg] hands over a non-positive height scale or cache capacity
InvalidCall(op, arg) ==
  \/ /\ op \in {"new", "heightScale"}
     /\ "heightScale" \in DOMAIN arg /\ arg["heightScale"] <= 0
  \/ /\ op = "new"
     /\ "cacheSize" \in DOMAIN arg /\ arg["cacheSize"] <= 0

C20_Step ==
  InvalidCall(config'.op, config'.arg) =>
    /\ config'.threw
    /\ config'.zoom = config.zoom
    /\ config'.heightScale = config.heightScale
    /\ config'.maxSize = config.maxSize

\* C20: invalid configuration other than zoom (a non-positive cache capacity
\* or height scale) is rejected immediately at construction or setter time:
\* the operation fails and the previous configuration stays in effect,
\* rather than the value being accepted or silently replaced.
C20_InvalidConfigRejected == [][C20_Step]_vars

\* C21: for every pixel with channel values R, G, B in 0..255 the elevation
\* sample stored in the decoded grid equals -10000 + (R*65536 + G*256 + B) *
\* 0.1 (here in hundredths of a metre), whatever other provider setting is
\* in force when the tile is decoded.
C21_SampleIsDecodedHeight ==
  calc.op = "decode" =>
    calc.out.sample =
      10 * ((calc.in[1] * 65536 + calc.in[2] * 256 + calc.in[3]) - 100000)

\* the range as first stated: -10000 m to +6553.5 m, in tenths of a metre
C22_RangeAsClaimed ==
  calc.op = "decode" =>
    -100000 <= calc.out.height /\ calc.out.height <= 65535

\* C22: for all R, G, B in 0..255 the decoded height lies between -10000 m
\* and the height of the pixel (255, 255, 255), which is +1667721.5 m and not
\* +6553.5 m (in tenths of a metre: -100000 <= 10*height <= 16677215).
C22_DecodedHeightRange ==
  calc.op = "decode" =>
    -100000 <= calc.out.height /\ calc.out.height <= 16677215

\* both ends of the range are decoded
C22_Witness ==
  /\ calc.op = "decode"
  /\ calc.in = <<255, 255, 255>>
  /\ calc.out.height = 16677215

\* the latest call was a bilinear lookup
IsSample == calc.op \in {"getHeightAt", "Get", "sampleHeightBilinear"}

\* C23: bilinear sampling at fractional coordinates that fall exactly on a
\* grid sample (u = i/(size-1), v = j/(size-1)) returns the value stored at
\* that sample (column i, row j) exactly, in both the single-point sampler
\* and the mesh sampler.
C23_ExactAtGridSamples ==
  IsSample =>
    \A i, j \in 0..(SampleSize - 1) :
      calc.in = <<i * (FracDen \div (SampleSize - 1)),
                  j * (FracDen \div (SampleSize - 1))>>
        => calc.out.value = SampleGrid[j * SampleSize + i] * FracDen * FracDen

\* C24: in every bilinear lookup all four corner indices (x0, x1, y0, y1) lie
\* in [0, size-1], so no read falls outside the grid, for every fractional
\* position including ones at, or slightly beyond, the tile edges.
C24_CornersInGrid ==
  IsSample =>
    /\ \A c \in {"x0", "x1", "y0", "y1"} :
          calc.out.corners[c] \in 0..(SampleSize - 1)
    /\ calc.out.reads \subseteq DOMAIN SampleGrid

\* C25: the single-point sampler and the mesh sampler apply the same axis
\* convention: for the same grid and the same fractional (u, v) they read
\* the same four samples and return the same height.
C25_SamplersAgree ==
  (IsSample /\ {calc.in[1], calc.in[2]} \subseteq 0..(FracDen - 1)) =>
    LET point == PointSample(SampleGrid, SampleSize, calc.in[1], calc.in[2])
        mesh == SampleHeightBilinear(SampleGrid, SampleSize, calc.in[1], calc.in[2])
    IN point.reads = mesh.reads /\ point.value = mesh.value

\* the latest call was a mesh build
IsBuild == calc.op \in {"build", "buildTile"}

\* C26: for every resolution r >= 1 a mesh build returns positions, normals,
\* colours and coords of length 3*(r+1)^2 each and an index buffer of length
\* 3*2*r^2 = 6*r^2.
C26_BufferLengths ==
  IsBuild =>
    LET r == calc.in[1] IN
    /\ \A a \in {"positions", "normals", "colours", "coords"} :
          calc.out[a] = 3 * (r + 1) * (r + 1)
    /\ Len(calc.out.indices) = 6 * r * r

\* a mesh of more than one cell has been built
C26_Witness == IsBuild /\ calc.in[1] = MaxResolution /\ calc.out.indices # << >>

\* C27: for every resolution r >= 1 each grid cell (x, y) with 0 <= x, y < r
\* contributes exactly the two triangles (topLeft, bottomLeft, topRight) and
\* (topRight, bottomLeft, bottomRight) in that vertex order, every index is a
\* vertex number in [0, (r+1)^2), and no triangle has a repeated vertex.
C27_Triangulation ==
  IsBuild =>
    LET r == calc.in[1]
        ix == calc.out.indices
        g == r + 1
    IN
    /\ Len(ix) = 6 * r * r
    /\ \A x, y \in 0..(r - 1) :
          LET at == 6 * (y * r + x)
              topLeft == y * g + x
              bottomLeft == (y + 1) * g + x
          IN /\ <<ix[at + 1], ix[at + 2], ix[at + 3]>>
                  = <<topLeft, bottomLeft, topLeft + 1>>
             /\ <<ix[at + 4], ix[at + 5], ix[at + 6]>>
                  = <<topLeft + 1, bottomLeft, bottomLeft + 1>>
    /\ \A i \in 1..Len(ix) : ix[i] \in 0..(g * g - 1)
    /\ \A k \in 0..(2 * r * r - 1) :
          Cardinality({ix[3 * k + 1], ix[3 * k + 2], ix[3 * k + 3]}) = 3

\* the tile builder has triangulated a grid of several rows and columns
C27_Witness ==
  /\ calc.op = "buildTile" /\ calc.in[1] >= 2
  /\ Len(calc.out.indices) >= 24

\* C28: every tile id that getHeightAt, prefetchTiles or getTileCoords
\* derives from a longitude and passes to loadTile satisfies
\* 0 <= x < 2^zoom, for every longitude in [-180, 180], 180 included.
C28_TileColumnInRange ==
  calc.op = "tileX" =>
    0 <= calc.out.x /\ calc.out.x < 2 ^ calc.in[3]

\* no key has two builds in flight
C29_OneBuildPerKey ==
  \A c, d \in CreationsInFlight : c # d => creation[c].key # creation[d].key

\* no step replaces the Ready chunk of a record by another chunk
C29_NoOverwrite ==
  \A k \in DOMAIN chunks \cap DOMAIN chunks' :
    (IsReady(chunks[k]) /\ IsReady(chunks'[k])) => chunks'[k].chunk = chunks[k].chunk

\* C29: a completed build is installed as the Ready chunk of a key only for
\* the pending record that started it: at most one build is in flight per
\* key at any time, and a build started before its key's record was removed
\* (_rebuildAllChunks, or removal and re-request of the key) never
\* overwrites the Ready chunk of a later record for the same key.
C29_BuildInstalledForItsRecord ==
  [](C29_OneBuildPerKey) /\ [][C29_NoOverwrite]_vars

\* the jobs whose completion callback has run
DoneJobs == {j \in Ids : jobs[j].done > 0}

\* between tasks no job waits in the queue while a worker is free, and once
\* no posted job is waiting for its reply nothing is left to do
C30_State ==
  /\ queue # << >> => free = << >>
  /\ (\A w \in Workers : inbox[w] = << >>) =>
        /\ queue = << >>
        /\ ~PoolBusy(State)
        /\ DoneJobs = Enqueued

\* every reply completes exactly one more job, and the worker it frees takes
\* the oldest queued job in the same task
C30_Reply ==
  \A w \in Workers :
    WorkerReply(w) =>
      /\ \E j \in Enqueued \ DoneJobs : DoneJobs' \cap Enqueued = DoneJobs \cup {j}
      /\ (queue # << >> => Head(queue) \in Posted')

\* C30: after an enqueue call returns and after a completion callback
\* returns, the queue is never non-empty while a worker is free;
\* consequently, if every posted job gets its reply, every enqueued job is
\* started and completed and the pool becomes not busy.  Stated on finite
\* runs: each reply completes one more job and starts the oldest queued one,
\* and when no reply is outstanding every job is done and the pool is idle.
C30_DispatchNeverStalls == [](C30_State) /\ [][C30_Reply]_vars

\* a reply arrived while jobs were queued, and the freed worker took one
C30_Witness ==
  /\ DoneJobs # {}
  /\ queue # << >>
  /\ free = << >>
\* ------------------------------------------- a manager left to settle
\* The fixed-grid manager with its viewpoint and settings left alone: frames
\* keep coming, every fetch gets a response and every image and worker
\* build completes.
CompletingOutcomes == {"ok", "http_error"}

Completions ==
  \/ \E f \in 1..MaxFetches, o \in CompletingOutcomes : FetchResponse(f, o)
  \/ \E f \in 1..MaxFetches, l \in BOOLEAN : ImageSettle(f, l)
  \/ \E w \in Workers : WorkerReply(w)

NextSettle ==
  \/ FrameGrid
  \/ Completions

\* the viewpoints a run is left to settle at
SettleViewpoints == {[x |-> i, z |-> ChunkSize \div 2] : i \in 0..(ChunkSize - 1)}

InitSettle ==
  \E p \in SettleViewpoints :
     InitWith("grid", p, LodOf(ViewDistance, ChunkSize, MaxChunkSize))

SpecSettle == InitSettle /\ [][NextSettle]_vars

VisibleNow == SeqSet(VisibleChunkKeys(camera))

AllDesiredReady == \A k \in VisibleNow : k \in DOMAIN chunks /\ IsReady(chunks[k])
\* nothing is left to do: no fetch or image outstanding, no message with a
\* worker, and a frame would change nothing
Idle ==
  /\ \A f \in DOMAIN fetches : fetches[f].phase \notin {"fetching", "image"}
  /\ \A w \in Workers : inbox[w] = << >>
  /\ UpdateGrid(State) = State

\* how far the work of a run has come: the stages the creations have
\* passed, the phases the fetches have passed, the chunks placed
StageRank(stage) ==
  CASE stage = "none" -> 0 [] stage = "prefetch" -> 1 [] stage = "heights" -> 2
    [] stage = "pool" -> 3 [] stage = "settled" -> 4

PhaseRank(phase) ==
  CASE phase = "fetching" -> 1 [] phase = "image" -> 2 [] OTHER -> 3

RECURSIVE SumOver(_, _)
SumOver(f, S) ==
  IF S = {} THEN 0
  ELSE LET x == CHOOSE y \in S : TRUE IN f[x] + SumOver(f, S \ {x})

WorkDone ==
  SumOver([c \in Ids |-> StageRank(creation[c].stage)], Ids) +
  SumOver([f \in DOMAIN fetches |-> PhaseRank(fetches[f].phase)], DOMAIN fetches) +
  Cardinality({c \in Ids : chunkObj[c].pos # << >>})

C31_Step ==
  /\ WorkDone' > WorkDone
  /\ \A k \in VisibleNow :
       (k \in DOMAIN chunks /\ IsReady(chunks[k])) =>
          (k \in DOMAIN chunks' /\ IsReady(chunks'[k]))

\* C31: with the viewpoint and the settings fixed, frames kept coming and
\* every fetch and build completing, every key of the desired set becomes
\* Ready and stays Ready, also when the desired set is larger than the
\* number of load slots: every step of such a run brings the work forward
\* and keeps the Ready keys Ready, and a run with nothing left to do has
\* every desired key Ready.
C31_DesiredBecomeReady == [](Idle => AllDesiredReady) /\ [][C31_Step]_vars

C31_Witness ==
  /\ Cardinality(VisibleNow) > MaxConcurrentLoads
  /\ Idle
  /\ AllDesiredReady
\* ------------------------------------ a completion handler that throws
\* The handler passed to .catch in the fixed-grid Update.  It is chained
\* after .then, so it runs when _createChunkAtGrid rejects and also when the
\* .then handler throws: _loadingChunks--, delete _chunks[key].
OnCatchGrid(s, key) ==
  [s EXCEPT !.loadingChunks = @ - 1, !.chunks = Drop(@, key)]

\* The .then handler of creation c when the call it makes on the chunk
\* (show or destroy) throws: it has released the load slot and, for a key
\* with a record, installed the Ready record; the .catch handler runs next.
OnCreatedGridThrows(s, c) ==
  LET key == s.creation[c].key
      s1 == [s EXCEPT !.loadingChunks = @ - 1, !.creation[c].stage = "settled"]
      s2 == IF key \in DOMAIN s1.chunks
            THEN [s1 EXCEPT !.chunks = Put(@, key, [pending |-> FALSE, chunk |-> c])]
            ELSE s1
  IN OnCatchGrid(s2, key)

\* worker w replies to a build_chunk job whose completion handler throws
HandlerFails(w) ==
  /\ variant = "grid"
  /\ inbox[w] # << >>
  /\ resolveOf[w] # 0
  /\ jobs[resolveOf[w]].kind = "chunk"
  /\ LET job == resolveOf[w]
         s1 == [State EXCEPT !.inbox[w] = Tail(@), !.resolveOf[w] = 0,
                             !.busy = @ \ {w}, !.free = Append(@, w)]
     IN Commit(OnCreatedGridThrows(Pump(WorkResolve(s1, job, Head(inbox[w]))), job))

NextFaults ==
  \/ \E p \in CameraPositions : MoveCamera(p)
  \/ FrameGrid
  \/ SettingsChange
  \/ \E f \in 1..MaxFetches, o \in FetchOutcomes : FetchResponse(f, o)
  \/ \E f \in 1..MaxFetches, l \in BOOLEAN : ImageSettle(f, l)
  \/ \E w \in Workers : WorkerReply(w)
  \/ \E w \in Workers : HandlerFails(w)

SpecFaults == Init /\ [][NextFaults]_vars

\* C32: _loadingChunks always equals the number of chunk creations started
\* and not yet settled, is decremented exactly once per settlement (also
\* when the completion handler itself fails) and never becomes negative.
C32_LoadCounterExact ==
  /\ loadingChunks = Cardinality(CreationsInFlight)
  /\ loadingChunks >= 0
\* the two shapes of a record of _chunks
PendingShape(rec) == rec.pending /\ rec.chunk = 0

ReadyShape(rec) ==
  /\ ~rec.pending
  /\ rec.chunk # 0
  /\ chunkObj[rec.chunk].made
  /\ chunkObj[rec.chunk].visible
  /\ chunkObj[rec.chunk].meshVisible

\* C33: every record of the resident chunk map is either Pending
\* (pending: true, no chunk) or Ready (pending: false, with a chunk that has
\* been shown), never both, and a Pending record carries no visible chunk.
C33_RecordShapes ==
  \A k \in DOMAIN chunks :
     /\ PendingShape(chunks[k]) \/ ReadyShape(chunks[k])
     /\ ~(PendingShape(chunks[k]) /\ ReadyShape(chunks[k]))

C33_Witness ==
  /\ \E k \in DOMAIN chunks : PendingShape(chunks[k])
  /\ \E k \in DOMAIN chunks : ReadyShape(chunks[k])
\* the floating-origin translation of a mesh with absolute vertices, in the
\* half metres of pos
NegatedCamera == <<0 - 2 * camera.x, 0 - 2 * camera.z>>

C34_Placed ==
  /\ \A k \in DOMAIN chunks :
        IsReady(chunks[k]) => chunkObj[chunks[k].chunk].pos = NegatedCamera
  /\ \A c \in CreationsInFlight :
        /\ chunkObj[c].pos = << >>
        /\ ~chunkObj[c].visible

\* C34: at the end of every Update every Ready chunk's mesh position is the
\* negated camera position (its vertices are in absolute world
\* coordinates), and the chunks of Pending records are neither placed nor
\* shown.
C34_PlacedByFloatingOrigin == [][(FrameGrid \/ FrameQuad) => C34_Placed']_vars
\* the chunks of the records on the old-chunk list
OldListChunks == {r.chunk : r \in {x \in oldChunks : x.chunk # 0}}

C35_Step ==
  /\ (PoolBusy(State) \/ ~FrameQuad) =>
        \A c \in OldListChunks : chunkObj'[c].destroys = chunkObj[c].destroys
  /\ (FrameQuad /\ ~PoolBusy(State)) =>
        \A c \in OldListChunks :
           /\ chunkObj'[c].destroys = 1
           /\ ~chunkObj'[c].inGroup
           /\ \A r \in oldChunks' : r.chunk # c

\* C35: the quadtree manager tears down the chunks on its old-chunk list
\* only in an Update that finds the worker pool not busy: while a job is
\* queued or in flight no chunk on the list is destroyed, and an Update that
\* finds the pool idle destroys every chunk on the list exactly once and
\* takes it off the list.
C35_TeardownWhenIdle == [][C35_Step]_vars

C35_Witness ==
  /\ variant = "quad"
  /\ \E c \in Ids :
        /\ chunkObj[c].visible
        /\ chunkObj[c].destroys = 1
        /\ c \notin OldListChunks
\* ------------------------------------ the order in which creations start
\* viewpoints at which the desired keys are not enumerated nearest first
OrderViewpoints == {[x |-> 4, z |-> 3], [x |-> 0, z |-> 3], [x |-> 3, z |-> 0]}

InitOrder ==
  \E p \in OrderViewpoints :
     InitWith("grid", p, LodOf(ViewDistance, ChunkSize, MaxChunkSize))

SpecOrder == InitOrder /\ [][NextSettle]_vars

\* the desired keys without a record, and those of them a step gives one
MissingKeys == VisibleNow \ DOMAIN chunks

C36_Step ==
  FrameGrid =>
    \A k \in MissingKeys, u \in MissingKeys :
       (k \in DOMAIN chunks' /\ u \notin DOMAIN chunks') =>
          Dist2x2(u, camera) >= Dist2x2(k, camera)

\* C36: when more desired keys are missing than there are free load slots,
\* the keys whose creation an Update starts are the nearest to the
\* viewpoint: no missing key is started while a strictly nearer missing key
\* is left unstarted in the same Update.
C36_NearestStartFirst == [][C36_Step]_vars

\* a key was started ahead of a farther missing key that the desired set
\* lists before it, after an earlier key has become Ready
C36_Witness ==
  LET keys == VisibleChunkKeys(camera)
  IN /\ loadingChunks = MaxConcurrentLoads
     /\ \E k \in DOMAIN chunks : IsReady(chunks[k])
     /\ \E i \in 1..Len(keys), j \in 1..Len(keys) :
          /\ i < j
          /\ keys[i] \in MissingKeys
          /\ keys[j] \in DOMAIN chunks /\ chunks[keys[j]].pending
          /\ Dist2x2(keys[i], camera) > Dist2x2(keys[j], camera)
\* ------------------------------------------------- the manager destroyed
\* a destroy that leaves the records of _chunks in place
ManagerDestroyKeepsMap(s) ==
  [DestroyAll(s, {s.chunks[k].chunk : k \in {x \in DOMAIN s.chunks : s.chunks[x].chunk # 0}})
     EXCEPT !.inScene = FALSE]

\* FlatTerrainManager.destroy(): destroy the chunk of every record that has
\* one, _chunks = {}, scene.remove(_group)
ManagerDestroy(s) ==
  [DestroyAll(s, {s.chunks[k].chunk : k \in {x \in DOMAIN s.chunks : s.chunks[x].chunk # 0}})
     EXCEPT !.chunks = << >>, !.inScene = FALSE]

\* the owner of the manager destroys it
DestroyManager ==
  /\ inScene
  /\ Commit(ManagerDestroy(State))

\* the frames of a manager that has not been destroyed
LiveFrameGrid ==
  /\ inScene
  /\ FrameGrid

LiveFrameQuad ==
  /\ inScene
  /\ FrameQuad

NextDestroy ==
  \/ \E p \in CameraPositions : MoveCamera(p)
  \/ LiveFrameGrid
  \/ LiveFrameQuad
  \/ SettingsChange
  \/ DestroyManager
  \/ \E f \in 1..MaxFetches, o \in FetchOutcomes : FetchResponse(f, o)
  \/ \E f \in 1..MaxFetches, l \in BOOLEAN : ImageSettle(f, l)
  \/ \E w \in Workers : WorkerReply(w)

SpecDestroy == InitManager /\ [][NextDestroy]_vars

C37_Step ==
  /\ DestroyManager =>
        \A k \in DOMAIN chunks :
           IsReady(chunks[k]) =>
              /\ chunkObj'[chunks[k].chunk].destroys >= 1
              /\ ~chunkObj'[chunks[k].chunk].inGroup
  /\ ~inScene' =>
        \A c \in CreationsInFlight :
           creation'[c].stage = "settled" =>
              /\ chunkObj'[c].destroys = 1
              /\ ~chunkObj'[c].inGroup
              /\ ~chunkObj'[c].visible

\* C37: after FlatTerrainManager.destroy() every Ready chunk has been
\* destroyed and the resident map is empty, and a build that was in flight
\* then and completes afterwards is destroyed on arrival, never shown and
\* never put into the resident map.
C37_DestroyIsFinal == [](~inScene => chunks = << >>) /\ [][C37_Step]_vars

\* a build that was in flight when the manager was destroyed has arrived
C37_Witness ==
  /\ ~inScene
  /\ \E c \in Ids :
        /\ creation[c].stage = "settled"
        /\ chunkObj[c].destroys = 1
        /\ ~chunkObj[c].visible
  /\ \E c \in Ids : chunkObj[c].visible /\ chunkObj[c].destroys = 1
\* the tiles resident as the all-zero grid of img.onerror
ZeroResident == {key \in DOMAIN cache : cache[key].zero}

C38_Step ==
  /\ \A f \in 1..MaxFetches :
        ImageSettle(f, FALSE) =>
           /\ fetches[f].tile \in DOMAIN cache'
           /\ cache'[fetches[f].tile] =
                [tile |-> fetches[f].tile, zero |-> TRUE, scale |-> 0]
  /\ \A key \in ZeroResident :
        /\ CallLoadTile(1, key) =>
              /\ got'[1] = {cache[key]}
              /\ waitOn'[1] = {}
              /\ fetches' = fetches
              /\ pending' = pending
              /\ cache' = cache
        /\ SyncLookup("getCachedTile", key) =>
              /\ lookup'.tile = {cache[key]}
              /\ fetches' = fetches
              /\ pending' = pending
              /\ cache' = cache

\* C38: a tile whose image failed to decode is put into the cache as its
\* all-zero grid like a loaded tile; while it is resident every later
\* loadTile and getCachedTile of it returns the zero grid, and no fetch is
\* started for it again.
C38_FailedTileStaysZero == [][C38_Step]_vars

\* the zero grid of a failed tile was handed out by getCachedTile and by
\* loadTile while the tile's only fetch is the one that failed
C38_Witness ==
  \E key \in ZeroResident :
     /\ lookup.op = "getCachedTile"
     /\ lookup.tile = {cache[key]}
     /\ got[1] = {cache[key]}
     /\ Cardinality({f \in DOMAIN fetches : fetches[f].tile = key}) = 1
     /\ Last(accessOrder) = key
     /\ Len(accessOrder) > 1
\* ------------------------------------- settings changed while tiles are held
\* a handler that also empties the tile cache
OnHeightScaleChangeClearsCache(s, v) ==
  [RebuildAllChunks(SetHeightScale(s, v)) EXCEPT
     !.cache = << >>, !.accessOrder = << >>, !.recency = << >>]

\* The onChange handler of the GUI's height scale: _heightScale = v;
\* _terrainProvider.heightScale = v; _rebuildAllChunks()
OnHeightScaleChange(s, v) == RebuildAllChunks(SetHeightScale(s, v))

\* the values the slider (0.1 .. 5) is moved between, in tenths
GuiHeightScales == {5, 10, 20}

GuiHeightScale(v) ==
  /\ v # config.heightScale
  /\ Commit(OnHeightScaleChange(State, v))

Tokens == {UrlToken, OtherToken}

AccessTokenSetter(token) ==
  /\ token # config.accessToken
  /\ Commit(SetAccessToken(State, token))

NextRescale ==
  \/ FrameGrid
  \/ \E v \in GuiHeightScales : GuiHeightScale(v)
  \/ \E token \in Tokens : AccessTokenSetter(token)
  \/ \E f \in 1..MaxFetches, o \in FetchOutcomes : FetchResponse(f, o)
  \/ \E f \in 1..MaxFetches, l \in BOOLEAN : ImageSettle(f, l)
  \/ \E w \in Workers : WorkerReply(w)

SpecRescale == Init /\ [][NextRescale]_vars

\* a setter has run
SettingSet ==
  \/ \E v \in GuiHeightScales : GuiHeightScale(v)
  \/ \E token \in Tokens : AccessTokenSetter(token)

C39_Step ==
  /\ \A f \in 1..MaxFetches :
        ImageSettle(f, TRUE) =>
           /\ fetches[f].tile \in DOMAIN cache'
           /\ cache'[fetches[f].tile].scale = config.heightScale
  /\ SettingSet =>
        /\ cache' = cache
        /\ accessOrder' = accessOrder
        /\ pending' = pending
        /\ fetches' = fetches
  /\ FrameGrid =>
        \A c \in Ids :
           (creation[c].stage = "none" /\ creation'[c].stage # "none") =>
              \A key \in SeqSet(TilesForChunk(creation'[c].key)) \cap DOMAIN cache :
                 cache[key] \in got'[c]

\* C39: cached tiles are keyed by zoom/x/y alone and no settings change
\* invalidates them: the heightScale and accessToken setters (and the chunk
\* rebuild) leave the cache and the loads in flight as they are, a tile's
\* heights carry the scale in force when its decode ran, and a resident tile
\* is handed to a later load as it is, whatever the setting is by then.
C39_TilesOutliveSettings == [][C39_Step]_vars

\* a creation started after a change of the height scale holds a decoded
\* tile scaled under the old setting, fetched under the old token
C39_Witness ==
  \E c \in Ids :
     /\ creation[c].stage # "none"
     /\ \E d \in got[c] :
          /\ ~d.zero
          /\ d.scale # config.heightScale
          /\ d.tile \in DOMAIN cache
          /\ cache[d.tile] = d
          /\ \E f \in DOMAIN fetches :
               /\ fetches[f].tile = d.tile
               /\ fetches[f].token # config.accessToken
\* ------------------------------------- jobs posted with another subject
\* a client enqueues jobs with the subject build_chunk and with another one
NextSubjects ==
  \/ \E kind \in {"plain", "other"} : Enqueue(kind)
  \/ \E w \in Workers : WorkerReply(w)

SpecSubjects == Init /\ [][NextSubjects]_vars

\* the workers holding a job posted with another subject
StuckWorkers == {w \in Workers : resolveOf[w] # 0 /\ jobs[resolveOf[w]].kind = "other"}

C40_State ==
  \A j \in Ids :
     /\ jobs[j].done <= 1
     /\ jobs[j].kind = "other" => jobs[j].done = 0

C40_Step ==
  /\ \A w \in Workers :
        (WorkerReply(w) /\ Subject(State, Head(inbox[w])) = "build_chunk") =>
           jobs'[Head(inbox[w])].done = 1
  /\ \A w \in StuckWorkers :
        /\ w \in busy'
        /\ resolveOf'[w] = resolveOf[w]
        /\ w \notin SeqSet(free')

\* C40: the worker sends one build_chunk_result for each build_chunk
\* message and nothing for a message of another subject, so a pool job
\* posted with another subject never completes: its callback is never
\* invoked and its worker stays busy.
C40_OtherSubjectNeverCompletes == [](C40_State) /\ [][C40_Step]_vars

\* a worker has taken a message of another subject and sits busy with
\* nothing to answer, while a build_chunk job has completed
C40_Witness ==
  /\ \E w \in StuckWorkers : inbox[w] = << >> /\ w \in busy
  /\ \E j \in Ids : jobs[j].kind = "plain" /\ jobs[j].done = 1
====
